---- MODULE Spec2Model ----
(***************************************************************************)
(* Model of the table tool-call execution engine of quill_project:         *)
(*   frontend/src/utils/toolExecutor.ts   (executeToolCall and helpers)    *)
(*   frontend/src/pages/DashboardPage.tsx (handleToolCalls, the batch fold)*)
(*                                                                         *)
(* JavaScript strings are sequences of one-character strings, so that      *)
(* toLowerCase(), trim(), String(number) and the date regular expression   *)
(* are computed, not assumed.  JavaScript values carry their typeof tag.   *)
(* TableState objects live in a heap of cells addressed by references, so  *)
(* that aliasing and in-place assignment are observable.                   *)
(***************************************************************************)
EXTENDS Integers, Sequences, FiniteSets, TLC

(***************************************************************************)
(* Bounds of the model.                                                    *)
(***************************************************************************)
\* longest batch of tool calls handed to handleToolCalls
MaxBatch == 3
\* number of clock ticks (milliseconds) Date.now() can advance in one run
MaxTicks == 1

\* Date.now() at the start of a run, far above the ids of the sample rows
ClockStart == 100

(***************************************************************************)
(* Strings.                                                                *)
(***************************************************************************)
UpperChars == <<"A","B","C","D","E","F","G","H","I","J","K","L","M",
                "N","O","P","Q","R","S","T","U","V","W","X","Y","Z">>
LowerChars == <<"a","b","c","d","e","f","g","h","i","j","k","l","m",
                "n","o","p","q","r","s","t","u","v","w","x","y","z">>
DigitChars == <<"0","1","2","3","4","5","6","7","8","9">>

\* String.prototype.toLowerCase, one character
LowerChar(c) ==
  IF \E i \in DOMAIN UpperChars : UpperChars[i] = c
  THEN LowerChars[CHOOSE i \in DOMAIN UpperChars : UpperChars[i] = c]
  ELSE c

\* String.prototype.toLowerCase
toLowerCase(s) == [i \in DOMAIN s |-> LowerChar(s[i])]

IsSpace(c) == c = " "

RECURSIVE TrimLeft(_)
TrimLeft(s) ==
  IF s # <<>> /\ IsSpace(Head(s)) THEN TrimLeft(Tail(s)) ELSE s

RECURSIVE TrimRight(_)
TrimRight(s) ==
  IF s # <<>> /\ IsSpace(s[Len(s)]) THEN TrimRight(SubSeq(s, 1, Len(s) - 1)) ELSE s

\* String.prototype.trim
trim(s) == TrimRight(TrimLeft(s))

IsDigit(c) == \E i \in DOMAIN DigitChars : DigitChars[i] = c
DigitVal(c) == (CHOOSE i \in DOMAIN DigitChars : DigitChars[i] = c) - 1

\* decimal digits of a natural number, as String(n) prints them
RECURSIVE NatToString(_)
NatToString(n) ==
  IF n < 10 THEN <<DigitChars[n + 1]>>
  ELSE NatToString(n \div 10) \o <<DigitChars[(n % 10) + 1]>>

\* value of a string of decimal digits
RECURSIVE DigitsToNat(_)
DigitsToNat(s) ==
  IF s = <<>> THEN 0
  ELSE 10 * DigitsToNat(SubSeq(s, 1, Len(s) - 1)) + DigitVal(s[Len(s)])

AllDigits(s) == \A i \in DOMAIN s : IsDigit(s[i])

(***************************************************************************)
(* JavaScript values, tagged with their typeof.                            *)
(***************************************************************************)
Undefined == [t |-> "undefined"]
Null == [t |-> "null"]
Str(s) == [t |-> "string", v |-> s]
Num(n) == [t |-> "number", nan |-> FALSE, v |-> n]
NaN == [t |-> "number", nan |-> TRUE, v |-> 0]
Bool(b) == [t |-> "boolean", v |-> b]
\* a plain object {} : String() gives "[object Object]"
PlainObject == [t |-> "object", printable |-> TRUE]
\* an object such as {"toString": 1}: String() throws a TypeError
PoisonObject == [t |-> "object", printable |-> FALSE]

IsString(x) == x.t = "string"

\* ToBoolean: what `!x` and `x &&` test
Truthy(x) ==
  CASE x.t = "undefined" -> FALSE
    [] x.t = "null" -> FALSE
    [] x.t = "string" -> x.v # <<>>
    [] x.t = "number" -> ~x.nan /\ x.v # 0
    [] x.t = "boolean" -> x.v
    [] OTHER -> TRUE

\* String(x) and `${x}` throw for an object without a usable toString
StringThrows(x) == x.t = "object" /\ ~x.printable

\* String(x) and `${x}`
String(x) ==
  CASE x.t = "undefined" -> <<"u","n","d","e","f","i","n","e","d">>
    [] x.t = "null" -> <<"n","u","l","l">>
    [] x.t = "string" -> x.v
    [] x.t = "number" -> IF x.nan THEN <<"N","a","N">> ELSE NatToString(x.v)
    [] x.t = "boolean" -> IF x.v THEN <<"t","r","u","e">> ELSE <<"f","a","l","s","e">>
    [] OTHER -> <<"[","o","b","j","e","c","t"," ","O","b","j","e","c","t","]">>

\* Number(x) on the values of the model: natural-number literals only
\* (no sign, fraction, exponent or radix prefix occurs in the inputs)
Number(x) ==
  CASE x.t = "undefined" -> NaN
    [] x.t = "null" -> Num(0)
    [] x.t = "string" ->
         IF AllDigits(trim(x.v)) THEN Num(DigitsToNat(trim(x.v))) ELSE NaN
    [] x.t = "number" -> x
    [] x.t = "boolean" -> IF x.v THEN Num(1) ELSE Num(0)
    [] OTHER -> NaN

(***************************************************************************)
(* String literals of the source.                                          *)
(***************************************************************************)
S_id == <<"i","d">>
S_name == <<"n","a","m","e">>
S_amount == <<"a","m","o","u","n","t">>
S_status == <<"s","t","a","t","u","s">>
S_date == <<"d","a","t","e">>
S_category == <<"c","a","t","e","g","o","r","y">>
S_active == <<"a","c","t","i","v","e">>
S_inactive == <<"i","n","a","c","t","i","v","e">>
S_pending == <<"p","e","n","d","i","n","g">>
S_asc == <<"a","s","c">>
S_desc == <<"d","e","s","c">>
S_range == <<"r","a","n","g","e">>
S_ge == <<">","=">>
S_le == <<"<","=">>
S_rowPrefix == <<"r","o","w","-">>

\* toolExecutor.ts:4
VALID_COLUMNS == <<S_id, S_name, S_amount, S_status, S_date, S_category>>

InSeq(x, seq) == \E i \in DOMAIN seq : seq[i] = x

\* toolExecutor.ts:7-13, null is modelled as the empty string (no column is empty)
normalizeColumn(column) ==
  LET normalized == trim(toLowerCase(column))
  IN IF InSeq(normalized, VALID_COLUMNS) THEN normalized ELSE <<>>

\* toolExecutor.ts:21-30
validateColumn(column) ==
  IF ~Truthy(column) \/ ~IsString(column)
  THEN [success |-> FALSE]
  ELSE IF normalizeColumn(column.v) = <<>>
       THEN [success |-> FALSE]
       ELSE [success |-> TRUE, column |-> normalizeColumn(column.v)]

\* /^\d{4}-\d{2}-\d{2}$/.test(s)
DateRegexTest(s) ==
  /\ Len(s) = 10
  /\ s[5] = "-" /\ s[8] = "-"
  /\ \A i \in {1, 2, 3, 4, 6, 7, 9, 10} : IsDigit(s[i])

\* toolExecutor.ts:370-374
isDateValueCheck(value) == IsString(value) /\ DateRegexTest(value.v)

\* new Date(s) for the date-only ISO form: valid iff month and day are in
\* range, and then ordered as the calendar orders them.  Every other string
\* of the model holds no digit-led date and is an Invalid Date.
NewDate(s) ==
  IF DateRegexTest(s)
  THEN LET y == DigitsToNat(SubSeq(s, 1, 4))
           m == DigitsToNat(SubSeq(s, 6, 7))
           d == DigitsToNat(SubSeq(s, 9, 10))
       IN IF m \in 1..12 /\ d \in 1..31
          THEN [valid |-> TRUE, time |-> (y * 12 + (m - 1)) * 31 + (d - 1)]
          ELSE [valid |-> FALSE, time |-> 0]
  ELSE [valid |-> FALSE, time |-> 0]

(***************************************************************************)
(* Tool calls and their arguments.                                         *)
(***************************************************************************)
FieldNames == {"column", "operator", "value", "direction", "rowId",
               "name", "amount", "status", "date", "category"}

\* the value JSON.parse gives for an object with the fields of o
JsonObject(o) ==
  [t |-> "object", printable |-> TRUE,
   o |-> [f \in FieldNames |-> IF f \in DOMAIN o THEN o[f] ELSE Undefined]]

\* property read `args.f`, as the destructuring of toolExecutor.ts:62,195,219,261
\* does it: a primitive has none of these properties
Get(args, f) == IF "o" \in DOMAIN args THEN args.o[f] ELSE Undefined

\* destructuring null throws a TypeError
DestructureThrows(args) == args.t = "null"

\* An arguments string is given by what JSON.parse makes of it: a syntax
\* error, or the value it denotes.
BadJson == [json |-> FALSE]
Json(val) == [json |-> TRUE, val |-> val]

\* toolExecutor.ts:32-42
parseToolArgs(argsStr) ==
  IF argsStr.json
  THEN [success |-> TRUE, args |-> argsStr.val]
  ELSE [success |-> FALSE, message |-> [kind |-> "FailedToParse", parts |-> <<>>]]

(***************************************************************************)
(* The heap of TableState objects.  A reference is an index of the heap.   *)
(***************************************************************************)
\* FAULTY VARIANT: newState is an alias of currentState, not a copy
AliasState(h, cur) == [heap |-> h, ref |-> cur]

\* toolExecutor.ts:58, `const newState = { ...currentState }`
SpreadState(h, cur) == [heap |-> Append(h, h[cur]), ref |-> Len(h) + 1]

\* a returned result; h is the heap as the call leaves it
Return(success, message, ref, h) ==
  [threw |-> FALSE, heap |-> h,
   result |-> [success |-> success, message |-> message, newState |-> ref]]

\* an exception leaving the switch; h is the heap as the throw leaves it
Throw(h) == [threw |-> TRUE, heap |-> h]

\* FAULTY VARIANT: the error result hands out the working copy
createErrorResultNew(message, currentState, ns, h) ==
  Return(FALSE, message, ns, h)

\* toolExecutor.ts:44-46
createErrorResult(message, currentState, ns, h) ==
  Return(FALSE, message, currentState, h)

Msg(kind, parts) == [kind |-> kind, parts |-> parts]

(***************************************************************************)
(* executeToolCall, one operator per case of the switch.  Each takes the   *)
(* parsed arguments, the reference cur of currentState, the reference ns   *)
(* of newState and the heap h, and gives Return(...) or Throw(...).        *)
(***************************************************************************)
\* Array.prototype.find on columnFilters; undefined when there is none
FindFilter(filters, column) ==
  LET hits == SelectSeq(filters, LAMBDA f : f.id = column)
  IN IF hits = <<>> THEN Undefined ELSE hits[1].value

\* property read on a filter value: a missing property is undefined
FilterProp(fv, p) == IF p \in DOMAIN fv THEN fv[p] ELSE Undefined

\* `a <= b` on two Date objects: false when either is an Invalid Date
DateLE(a, b) == a.valid /\ b.valid /\ a.time <= b.time

\* FAULTY VARIANT: the new filter always replaces the one the column has
NewFilterValueReplacing(existingFilterValue, isDateColumn, operator, value) ==
  [operator |-> operator, value |-> value]

\* toolExecutor.ts:92-172, the filter value to store
NewFilterValue(existingFilterValue, isDateColumn, operator, value) ==
  LET plain == [operator |-> operator, value |-> value]
      existingOp == FilterProp(existingFilterValue, "operator")
      existingVal == FilterProp(existingFilterValue, "value")
      existingMin == FilterProp(existingFilterValue, "minValue")
      existingMax == FilterProp(existingFilterValue, "maxValue")
      lowerFirst == existingOp = Str(S_ge) /\ operator = Str(S_le)
      upperFirst == existingOp = Str(S_le) /\ operator = Str(S_ge)
      minValue == IF lowerFirst THEN existingVal ELSE value
      maxValue == IF lowerFirst THEN value ELSE existingVal
  IN IF existingFilterValue # Undefined /\ isDateColumn /\ isDateValueCheck(value)
     THEN IF lowerFirst \/ upperFirst
          THEN IF DateLE(NewDate(String(minValue)), NewDate(String(maxValue)))
               THEN [operator |-> Str(S_range), value |-> minValue,
                     minValue |-> minValue, maxValue |-> maxValue]
               ELSE plain
          ELSE IF existingOp = Str(S_range)
          THEN IF operator = Str(S_ge)
               THEN IF /\ NewDate(String(value)).valid
                       /\ \/ ~Truthy(existingMax)
                          \/ DateLE(NewDate(String(value)), NewDate(String(existingMax)))
                    THEN [existingFilterValue EXCEPT !.minValue = value, !.value = value]
                    ELSE plain
               ELSE IF operator = Str(S_le)
               THEN IF /\ NewDate(String(value)).valid
                       /\ \/ ~Truthy(existingMin)
                          \/ DateLE(NewDate(String(existingMin)), NewDate(String(value)))
                    THEN [existingFilterValue EXCEPT !.maxValue = value, !.value = value]
                    ELSE plain
               ELSE plain
          ELSE plain
     ELSE plain

\* FAULTY VARIANT: the new filter replaces the whole filter list
SetColumnFilterOnly(filters, column, newFilterValue) ==
  <<[id |-> column, value |-> newFilterValue]>>

\* toolExecutor.ts:174-181, add or update the filter of one column
SetColumnFilter(filters, column, newFilterValue) ==
  SelectSeq(filters, LAMBDA f : f.id # column)
    \o <<[id |-> column, value |-> newFilterValue]>>

\* toolExecutor.ts:61-192
ExecFilterTable(args, cur, ns, h) ==
  LET column == Get(args, "column")
      operator == Get(args, "operator")
      value == Get(args, "value")
      columnValidation == validateColumn(column)
  IN IF ~columnValidation.success
     THEN IF ~Truthy(column) \/ ~IsString(column)
          THEN createErrorResult(Msg("ColumnRequired", <<>>), cur, ns, h)
          ELSE createErrorResult(Msg("InvalidColumn", <<column.v>>), cur, ns, h)
     ELSE IF ~Truthy(operator) \/ ~IsString(operator)
     THEN createErrorResult(Msg("OperatorRequired", <<>>), cur, ns, h)
     ELSE IF value = Undefined \/ value = Null
     THEN createErrorResult(Msg("ValueRequired", <<>>), cur, ns, h)
     ELSE
       LET col == columnValidation.column
           existingFilterValue == FindFilter(h[cur].columnFilters, col)
           newFilterValue ==
             NewFilterValue(existingFilterValue, col = S_date, operator, value)
           h2 == [h EXCEPT ![ns].columnFilters =
                    SetColumnFilter(h[cur].columnFilters, col, newFilterValue)]
       IN IF newFilterValue.operator = Str(S_range)
          THEN Return(TRUE,
                      Msg("FilteredRange", <<col, String(newFilterValue.minValue),
                                             String(newFilterValue.maxValue)>>),
                      ns, h2)
          ELSE IF StringThrows(value)
               THEN Throw(h2)
               ELSE Return(TRUE,
                           Msg("Filtered", <<col, String(operator), String(value)>>),
                           ns, h2)

\* FAULTY VARIANT: any direction is taken, and the entry is added to the
\* sort spec
ExecSortTableAdding(args, cur, ns, h) ==
  LET column == Get(args, "column")
      direction == Get(args, "direction")
      columnValidation == validateColumn(column)
  IN IF ~columnValidation.success
     THEN createErrorResult(Msg("ColumnRequired", <<>>), cur, ns, h)
     ELSE Return(TRUE,
                 Msg("Sorted", <<columnValidation.column, String(direction)>>),
                 ns,
                 [h EXCEPT ![ns].sorting =
                    Append(h[cur].sorting,
                           [id |-> columnValidation.column,
                            desc |-> direction = Str(S_desc)])])

\* toolExecutor.ts:194-216
ExecSortTable(args, cur, ns, h) ==
  LET column == Get(args, "column")
      direction == Get(args, "direction")
      columnValidation == validateColumn(column)
  IN IF ~columnValidation.success
     THEN IF ~Truthy(column) \/ ~IsString(column)
          THEN createErrorResult(Msg("ColumnRequired", <<>>), cur, ns, h)
          ELSE createErrorResult(Msg("InvalidColumn", <<column.v>>), cur, ns, h)
     ELSE IF ~Truthy(direction) \/ (direction # Str(S_asc) /\ direction # Str(S_desc))
     THEN createErrorResult(Msg("DirectionInvalid", <<>>), cur, ns, h)
     ELSE Return(TRUE,
                 Msg("Sorted", <<columnValidation.column, direction.v>>),
                 ns,
                 [h EXCEPT ![ns].sorting =
                    <<[id |-> columnValidation.column,
                       desc |-> direction = Str(S_desc)]>>])

\* toolExecutor.ts:225, the status enum test
IsStatus(status) ==
  status = Str(S_active) \/ status = Str(S_inactive) \/ status = Str(S_pending)

\* toolExecutor.ts:245, `row-${Date.now()}`
NewRowId(now) == S_rowPrefix \o NatToString(now)

\* toolExecutor.ts:218-258
ExecAddRow(args, cur, ns, h, now) ==
  LET name == Get(args, "name")
      amount == Get(args, "amount")
      status == Get(args, "status")
      date == Get(args, "date")
      category == Get(args, "category")
  IN IF ~IsString(name) \/ ~IsString(date) \/ ~IsString(category) \/ ~IsStatus(status)
     THEN Return(FALSE, Msg("InvalidRowData", <<>>), cur, h)
     ELSE IF ~DateRegexTest(date.v)
     THEN Return(FALSE, Msg("DateFormat", <<>>), cur, h)
     ELSE IF StringThrows(amount)
     THEN Throw(h)
     ELSE
       LET newRow == [id |-> NewRowId(now), name |-> name.v,
                      amount |-> Number(amount), status |-> status.v,
                      date |-> date.v, category |-> category.v]
       IN Return(TRUE, Msg("AddedRow", <<name.v>>), ns,
                 [h EXCEPT ![ns].data = Append(h[cur].data, newRow)])

\* String(row[column]) for a validated column
CellString(row, column) ==
  CASE column = S_id -> row.id
    [] column = S_name -> row.name
    [] column = S_amount -> String(row.amount)
    [] column = S_status -> row.status
    [] column = S_date -> row.date
    [] column = S_category -> row.category

\* FAULTY VARIANT: name is looked at before rowId
DeleteModeNameFirst(rowId, name, column, value) ==
  IF Truthy(name) /\ IsString(name) THEN "name"
  ELSE IF Truthy(rowId) /\ IsString(rowId) THEN "rowId"
  ELSE IF Truthy(column) /\ value # Undefined THEN "column"
  ELSE "none"

\* toolExecutor.ts:266,274,282,308, which branch of deleteRow is taken
DeleteMode(rowId, name, column, value) ==
  IF Truthy(rowId) /\ IsString(rowId) THEN "rowId"
  ELSE IF Truthy(name) /\ IsString(name) THEN "name"
  ELSE IF Truthy(column) /\ value # Undefined THEN "column"
  ELSE "none"

\* toolExecutor.ts:268, Array.prototype.find by id: the first hit or none
FindById(data, id) ==
  LET hits == SelectSeq(data, LAMBDA r : r.id = id)
  IN IF hits = <<>> THEN <<>> ELSE <<hits[1]>>

\* toolExecutor.ts:276-278
FilterByName(data, name) ==
  SelectSeq(data, LAMBDA r : toLowerCase(r.name) = toLowerCase(name))

\* toolExecutor.ts:292-300
FilterByColumn(data, column, value) ==
  SelectSeq(data, LAMBDA row :
    IF column = S_date
    THEN CellString(row, column) = String(value)
    ELSE toLowerCase(CellString(row, column)) = toLowerCase(String(value)))

\* FAULTY VARIANT: an empty selection is not noticed
NothingFoundNever(rowsToDelete) == FALSE

\* toolExecutor.ts:269,279,302, the test for an empty selection
NothingFound(rowsToDelete) == rowsToDelete = <<>>

\* toolExecutor.ts:315-317, remove every row whose id is an id to delete
RemoveRows(data, rowsToDelete) ==
  LET idsToDelete == {rowsToDelete[i].id : i \in DOMAIN rowsToDelete}
  IN SelectSeq(data, LAMBDA row : row.id \notin idsToDelete)

\* toolExecutor.ts:315-330, the tail of deleteRow once rowsToDelete is known
DeleteSelected(rowsToDelete, rowId, name, column, value, cur, ns, h) ==
  LET h2 == [h EXCEPT ![ns].data = RemoveRows(h[cur].data, rowsToDelete)]
      deletedCount == Len(rowsToDelete)
  IN IF Truthy(rowId)
     THEN IF StringThrows(rowId) THEN Throw(h2)
          ELSE Return(TRUE, [kind |-> "Deleted", count |-> deletedCount,
                             parts |-> <<S_id, String(rowId)>>], ns, h2)
     ELSE IF Truthy(name)
     THEN IF StringThrows(name) THEN Throw(h2)
          ELSE Return(TRUE, [kind |-> "Deleted", count |-> deletedCount,
                             parts |-> <<S_name, String(name)>>], ns, h2)
     ELSE IF StringThrows(column) \/ StringThrows(value) THEN Throw(h2)
          ELSE Return(TRUE, [kind |-> "Deleted", count |-> deletedCount,
                             parts |-> <<String(column), String(value)>>], ns, h2)

\* toolExecutor.ts:260-331
ExecDeleteRow(args, cur, ns, h) ==
  LET rowId == Get(args, "rowId")
      name == Get(args, "name")
      column == Get(args, "column")
      value == Get(args, "value")
      data == h[cur].data
      mode == DeleteMode(rowId, name, column, value)
  IN CASE mode = "rowId" ->
            LET rowsToDelete == FindById(data, rowId.v)
            IN IF NothingFound(rowsToDelete)
               THEN createErrorResult(Msg("RowIdNotFound", <<rowId.v>>), cur, ns, h)
               ELSE DeleteSelected(rowsToDelete, rowId, name, column, value, cur, ns, h)
       [] mode = "name" ->
            LET rowsToDelete == FilterByName(data, name.v)
            IN IF NothingFound(rowsToDelete)
               THEN createErrorResult(Msg("NameNotFound", <<name.v>>), cur, ns, h)
               ELSE DeleteSelected(rowsToDelete, rowId, name, column, value, cur, ns, h)
       [] mode = "column" ->
            LET columnValidation == validateColumn(column)
            IN IF ~columnValidation.success
               THEN IF StringThrows(column) THEN Throw(h)
                    ELSE createErrorResult(Msg("InvalidColumn", <<String(column)>>),
                                           cur, ns, h)
               ELSE IF StringThrows(value) THEN Throw(h)
               ELSE
                 LET rowsToDelete ==
                       FilterByColumn(data, columnValidation.column, value)
                 IN IF NothingFound(rowsToDelete)
                    THEN createErrorResult(
                           Msg("ColumnValueNotFound",
                               <<columnValidation.column, String(value)>>),
                           cur, ns, h)
                    ELSE DeleteSelected(rowsToDelete, rowId, name, column, value,
                                        cur, ns, h)
       [] OTHER -> createErrorResult(Msg("MustProvide", <<>>), cur, ns, h)

\* FAULTY VARIANT: clearFilters empties the sort spec, not the filters
ExecClearFiltersSorting(ns, h) ==
  Return(TRUE, Msg("ClearedFilters", <<>>), ns, [h EXCEPT ![ns].sorting = <<>>])

\* toolExecutor.ts:333-340
ExecClearFilters(ns, h) ==
  Return(TRUE, Msg("ClearedFilters", <<>>), ns, [h EXCEPT ![ns].columnFilters = <<>>])

\* toolExecutor.ts:342-349
ExecClearSorting(ns, h) ==
  Return(TRUE, Msg("ClearedSorting", <<>>), ns, [h EXCEPT ![ns].sorting = <<>>])

\* toolExecutor.ts:60-353, the switch on the tool name
ExecSwitch(name, args, cur, ns, h, now) ==
  CASE name = "filterTable" ->
         IF DestructureThrows(args) THEN Throw(h) ELSE ExecFilterTable(args, cur, ns, h)
    [] name = "sortTable" ->
         IF DestructureThrows(args) THEN Throw(h) ELSE ExecSortTable(args, cur, ns, h)
    [] name = "addRow" ->
         IF DestructureThrows(args) THEN Throw(h) ELSE ExecAddRow(args, cur, ns, h, now)
    [] name = "deleteRow" ->
         IF DestructureThrows(args) THEN Throw(h) ELSE ExecDeleteRow(args, cur, ns, h)
    [] name = "clearFilters" -> ExecClearFilters(ns, h)
    [] name = "clearSorting" -> ExecClearSorting(ns, h)
    [] OTHER -> createErrorResult(Msg("UnknownTool", <<name>>), cur, ns, h)

\* FAULTY VARIANT: no catch, the exception leaves executeToolCall
CatchNothing(body, cur, ns) == body

\* toolExecutor.ts:354-357, the catch of executeToolCall
CatchAll(body, cur, ns) ==
  IF body.threw
  THEN createErrorResult(Msg("ErrorExecuting", <<>>), cur, ns, body.heap)
  ELSE body

\* toolExecutor.ts:48-358.  cur is the reference of currentState in heap h,
\* now is what Date.now() returns during the call.
executeToolCall(toolCall, cur, h, now) ==
  LET parsed == parseToolArgs(toolCall.arguments)
  IN IF ~parsed.success
     THEN createErrorResult(parsed.message, cur, cur, h)
     ELSE LET copy == SpreadState(h, cur)
          IN CatchAll(ExecSwitch(toolCall.name, parsed.args, cur,
                                 copy.ref, copy.heap, now),
                      cur, copy.ref)

(***************************************************************************)
(* Inputs: the rows the table starts with and the tool calls the model     *)
(* offers.  Every call is an object the language model can emit.           *)
(***************************************************************************)
D_jan == <<"2","0","2","4","-","0","1","-","1","5">>
D_feb == <<"2","0","2","4","-","0","2","-","0","1">>
D_loose == <<"2","0","2","4","-","1","-","5">>

\* number of rows generateSampleData makes (75 in the source)
SampleCount == 2

\* sampleData.ts:21-38, one possible outcome of the random draw
SampleRow(i) ==
  [id |-> S_rowPrefix \o NatToString(i),
   name |-> IF i % 2 = 1 THEN <<"a">> ELSE <<"B">>,
   amount |-> Num(IF i % 2 = 1 THEN 5 ELSE 20),
   status |-> IF i % 2 = 1 THEN S_active ELSE S_inactive,
   date |-> IF i % 2 = 1 THEN D_jan ELSE D_feb,
   category |-> <<"x">>]

generateSampleData(count) == [i \in 1..count |-> SampleRow(i)]

Call(name, o) == [name |-> name, arguments |-> Json(JsonObject(o))]

FilterCalls ==
  { Call("filterTable", [column |-> Str(<<" ","D","a","t","e"," ">>), operator |-> Str(S_ge), value |-> Str(D_jan)]),
    Call("filterTable", [column |-> Str(S_date), operator |-> Str(S_le), value |-> Str(D_feb)]),
    Call("filterTable", [column |-> Str(<<"N","a","m","e">>), operator |-> Str(<<"c","o","n","t","a","i","n","s">>), value |-> Str(<<"a">>)]),
    Call("filterTable", [column |-> Str(<<"b","o","g","u","s">>), operator |-> Str(S_ge), value |-> Str(D_jan)]),
    Call("filterTable", [column |-> Num(3), operator |-> Str(S_ge), value |-> Str(D_jan)]),
    Call("filterTable", [column |-> Str(S_name), value |-> Str(<<"a">>)]),
    Call("filterTable", [column |-> Str(S_name), operator |-> Str(S_ge), value |-> Null]),
    Call("filterTable", [column |-> Str(S_name), operator |-> Str(S_ge), value |-> PoisonObject]) }

SortCalls ==
  { Call("sortTable", [column |-> Str(<<"A","m","o","u","n","t">>), direction |-> Str(S_desc)]),
    Call("sortTable", [column |-> Str(S_name), direction |-> Str(<<"u","p">>)]),
    Call("sortTable", [column |-> Str(<<"b","o","g","u","s">>), direction |-> Str(S_asc)]) }

\* a well-formed addRow, and the same call with one field spoiled
GoodRow ==
  [name |-> Str(<<"C">>), amount |-> Num(7), status |-> Str(S_pending),
   date |-> Str(D_feb), category |-> Str(<<"y">>)]

AddCalls ==
  { Call("addRow", GoodRow),
    Call("addRow", [GoodRow EXCEPT !.name = Str(<<"a">>), !.status = Str(S_inactive)]),
    Call("addRow", [GoodRow EXCEPT !.amount = Undefined]),
    Call("addRow", [GoodRow EXCEPT !.amount = PoisonObject]),
    Call("addRow", [GoodRow EXCEPT !.name = Undefined]),
    Call("addRow", [GoodRow EXCEPT !.status = Str(<<"A","c","t","i","v","e">>)]),
    Call("addRow", [GoodRow EXCEPT !.status = Undefined]),
    Call("addRow", [GoodRow EXCEPT !.date = Str(D_loose)]),
    Call("addRow", [GoodRow EXCEPT !.date = Undefined]),
    Call("addRow", [GoodRow EXCEPT !.category = Num(1)]) }

RowIdOf(n) == Str(S_rowPrefix \o NatToString(n))

DeleteCalls ==
  { Call("deleteRow", [rowId |-> RowIdOf(1)]),
    Call("deleteRow", [rowId |-> RowIdOf(ClockStart)]),
    Call("deleteRow", [rowId |-> RowIdOf(ClockStart + 1)]),
    Call("deleteRow", [rowId |-> RowIdOf(9)]),
    Call("deleteRow", [rowId |-> RowIdOf(1), name |-> Str(<<"b">>),
                       column |-> Str(S_category), value |-> Str(<<"y">>)]),
    Call("deleteRow", [rowId |-> Str(<<>>), name |-> Str(<<"A">>)]),
    Call("deleteRow", [rowId |-> Num(5), name |-> Str(<<"b">>)]),
    Call("deleteRow", [name |-> Str(<<"c">>)]),
    Call("deleteRow", [name |-> Str(<<"z">>)]),
    Call("deleteRow", [name |-> Str(<<"c">>), column |-> Str(S_category),
                       value |-> Str(<<"x">>)]),
    Call("deleteRow", [column |-> Str(<<"S","t","a","t","u","s">>), value |-> Str(<<"I","n","a","c","t","i","v","e">>)]),
    Call("deleteRow", [column |-> Str(S_category), value |-> Str(<<"Y">>)]),
    Call("deleteRow", [column |-> Str(S_category), value |-> Str(<<"x">>)]),
    Call("deleteRow", [column |-> Str(S_amount), value |-> Num(7)]),
    Call("deleteRow", [column |-> Str(S_date), value |-> Str(D_feb)]),
    Call("deleteRow", [column |-> Str(<<"b","o","g","u","s">>), value |-> Str(<<"x">>)]),
    Call("deleteRow", [column |-> Str(S_category), value |-> PoisonObject]),
    Call("deleteRow", [name |-> PoisonObject, column |-> Str(S_category),
                       value |-> Str(<<"x">>)]),
    Call("deleteRow", [column |-> Str(S_category)]),
    Call("deleteRow", [value |-> Str(<<"x">>)]),
    Call("deleteRow", [rowId |-> Num(5)]),
    Call("deleteRow", [name |-> Str(<<>>)]) }

\* calls whose arguments string is not an object, or not JSON at all
OddCalls ==
  { [name |-> "clearFilters", arguments |-> Json(JsonObject(<<>>))],
    [name |-> "clearFilters", arguments |-> Json(Null)],
    [name |-> "clearFilters", arguments |-> BadJson],
    [name |-> "clearSorting", arguments |-> Json(JsonObject(<<>>))],
    [name |-> "doStuff", arguments |-> Json(JsonObject(<<>>))],
    [name |-> "filterTable", arguments |-> BadJson],
    [name |-> "filterTable", arguments |-> Json(Null)],
    [name |-> "sortTable", arguments |-> Json(Str(S_name))],
    [name |-> "addRow", arguments |-> Json(Num(3))],
    [name |-> "deleteRow", arguments |-> Json(Null)],
    [name |-> "deleteRow", arguments |-> Json(Bool(TRUE))] }

ToolCalls == FilterCalls \cup SortCalls \cup AddCalls \cup DeleteCalls \cup OddCalls

\* calls on the id column, which VALID_COLUMNS lists with the data columns
IdCalls ==
  { Call("filterTable", [column |-> Str(<<"I","d">>), operator |-> Str(<<"e","q","u","a","l","s">>), value |-> Str(<<"r","o","w","-","1">>)]),
    Call("sortTable", [column |-> Str(S_id), direction |-> Str(S_asc)]) }

\* more calls whose arguments string is not JSON
UnparsedCalls ==
  { [name |-> "clearSorting", arguments |-> BadJson],
    [name |-> "doStuff", arguments |-> BadJson],
    [name |-> "sortTable", arguments |-> BadJson] }

\* the calls that leave the rows alone: the view tools and the calls no
\* tool accepts
ViewCalls == FilterCalls \cup SortCalls \cup IdCalls \cup OddCalls \cup UnparsedCalls

(***************************************************************************)
(* The dashboard: React state and the handleToolCalls batch.               *)
(***************************************************************************)
VARIABLES
  tableData,      \* useState tableData, DashboardPage.tsx:13
  sorting,        \* useState sorting, DashboardPage.tsx:14
  columnFilters,  \* useState columnFilters, DashboardPage.tsx:15
  clock,          \* what Date.now() returns
  pc,             \* "idle" before handleToolCalls; "running" at the head of
                  \* its loop; "called" when executeToolCall has returned;
                  \* "published" when the updater has returned
  batchLen,       \* toolCalls.length of the batch being handled
  startState,     \* the TableState the batch started from
  currentState,   \* the object the variable currentState refers to
  toolResults,    \* DashboardPage.tsx:33
  last,           \* toolCall and result of the iteration in progress, with
                  \* the input object before and after the call
  prevAdd,        \* the iteration before it, when it was a successful addRow
  visible,        \* the rows DataTable shows once it has rendered the
                  \* published state (getFilteredRowModel)
  rendered,       \* the sorting and columnFilters of the last committed
                  \* render: what the handleToolCalls of that render, and the
                  \* sendMessage and sendToolResults made with it, close over
  held,           \* the closure of the handleToolCalls that the request in
                  \* flight calls when its reply has tool calls
  batches         \* how many batches handleToolCalls has been given

turnVars == <<rendered, held, batches>>

vars == <<tableData, sorting, columnFilters, clock, pc, batchLen, startState,
          currentState, toolResults, last, prevAdd, visible, turnVars>>

\* parseStreamResponse (streamParser.ts:70-307): its local variables, the
\* response body it reads, and the point it has reached
VARIABLES
  source,               \* what the server sends during the run
  fed,                  \* how much of it parseStreamResponse has been given
  split,                \* whether a delivery so far ended inside a line or a tag
  decoder,              \* bytes the TextDecoder holds back, streamParser.ts:76
  buffer,               \* streamParser.ts:77
  accumulatedText,      \* streamParser.ts:78
  accumulatedThinking,  \* streamParser.ts:79
  isInThinking,         \* streamParser.ts:80
  tagBuffer,            \* streamParser.ts:81
  toolCallsMap,         \* streamParser.ts:82, entries in insertion order
  toolCallsByIndex,     \* streamParser.ts:83, 0 where the array has a hole
  accumulators,         \* the ToolCallAccumulator objects the two refer to
  ppc,                  \* "off", "reading", "returned" or "rejected"
  parsed                \* the StreamParseResult, once returned

parserVars == <<source, fed, split, decoder, buffer, accumulatedText,
                accumulatedThinking, isInThinking, tagBuffer, toolCallsMap,
                toolCallsByIndex, accumulators, ppc, parsed>>

NoSource == [kind |-> "none"]
NoResult == [none |-> TRUE]

\* no parseStreamResponse is running
ParserOff ==
  /\ source = NoSource
  /\ fed = 0
  /\ split = FALSE
  /\ decoder = <<>>
  /\ buffer = <<>>
  /\ accumulatedText = <<>>
  /\ accumulatedThinking = <<>>
  /\ isInThinking = FALSE
  /\ tagBuffer = <<>>
  /\ toolCallsMap = <<>>
  /\ toolCallsByIndex = <<>>
  /\ accumulators = <<>>
  /\ ppc = "off"
  /\ parsed = NoResult

\* useChat (useChat.ts:29-349) and the requests it has sent
VARIABLES
  messages,                        \* useState messages, useChat.ts:32
  isStreaming,                     \* useChat.ts:34
  streamingText,                   \* useChat.ts:35
  streamingToolCalls,              \* useChat.ts:36
  isExecutingTool,                 \* useChat.ts:37
  messagesRef,                     \* useChat.ts:39, messages as last rendered
  abortControllerRef,              \* useChat.ts:40, a request or NullRef
  streamingAssistantMessageIdRef,  \* useChat.ts:41, a message id or NullRef
  streamingTextRef,                \* useChat.ts:42
  streamingToolCallsRef,           \* useChat.ts:43
  requests,                        \* the calls of sendChatRequest, oldest first
  errors,                          \* the errors handed to options.onError
  executions,                      \* the batches handed to options.onToolCalls
  messageIds,                      \* how many message ids have been made
  submitted                        \* what handleToolCalls found to send when
                                   \* it reached DashboardPage.tsx:72

chatVars == <<messages, isStreaming, streamingText, streamingToolCalls,
              isExecutingTool, messagesRef, abortControllerRef,
              streamingAssistantMessageIdRef, streamingTextRef,
              streamingToolCallsRef, requests, errors, executions, messageIds,
              submitted>>

NullRef == 0
NotReached == [reached |-> FALSE]

\* useChat.ts:32-43, the chat as it is mounted
ChatMounted ==
  /\ messages = <<>>
  /\ isStreaming = FALSE
  /\ streamingText = <<>>
  /\ streamingToolCalls = <<>>
  /\ isExecutingTool = FALSE
  /\ messagesRef = <<>>
  /\ abortControllerRef = NullRef
  /\ streamingAssistantMessageIdRef = NullRef
  /\ streamingTextRef = <<>>
  /\ streamingToolCallsRef = <<>>
  /\ requests = <<>>
  /\ errors = <<>>
  /\ executions = <<>>
  /\ messageIds = 0
  /\ submitted = NotReached


NoCall == [done |-> FALSE]
NoAdd == [set |-> FALSE]
NoState == [none |-> TRUE]

\* DashboardPage.tsx:14-15 and 27-94, the first render closes over the
\* empty sort spec and filter list; no request is in flight
FirstRender ==
  /\ rendered = [sorting |-> <<>>, columnFilters |-> <<>>]
  /\ held = NoState
  /\ batches = 0

\* the dashboard as it is mounted
DashboardInit ==
  /\ tableData = generateSampleData(SampleCount)
  /\ sorting = <<>>
  /\ columnFilters = <<>>
  /\ clock = ClockStart
  /\ pc = "idle"
  /\ batchLen = 0
  /\ startState = NoState
  /\ currentState = NoState
  /\ toolResults = <<>>
  /\ last = NoCall
  /\ prevAdd = NoAdd
  /\ visible = NotReached
  /\ FirstRender

Init == DashboardInit /\ ChatMounted /\ ParserOff

\* DashboardPage.tsx:27-43, handleToolCalls is entered with n tool calls and
\* the updater builds currentState from the table as it was loaded.
BeginBatch(n) ==
  /\ pc = "idle"
  /\ pc' = "running"
  /\ batchLen' = n
  /\ startState' = [data |-> tableData, sorting |-> sorting,
                    columnFilters |-> columnFilters,
                    pagination |-> [pageIndex |-> 0, pageSize |-> 10]]
  /\ currentState' = startState'
  /\ toolResults' = <<>>
  /\ last' = NoCall
  /\ prevAdd' = NoAdd
  /\ UNCHANGED <<tableData, sorting, columnFilters, clock>>
  /\ UNCHANGED <<parserVars, chatVars, visible, turnVars>>

\* FAULTY VARIANT: every call of the batch is applied to the starting state
CallInputStart(start, current) == start

\* DashboardPage.tsx:45, the state handed to executeToolCall
CallInput(start, current) == current

\* DashboardPage.tsx:44-45, `const result = executeToolCall(toolCall,
\* currentState)`.  The heap of the call holds currentState at reference 1.
ExecuteCall(toolCall) ==
  /\ pc = "running"
  /\ Len(toolResults) < batchLen
  /\ LET input == CallInput(startState, currentState)
         out == executeToolCall(toolCall, 1, <<input>>, clock)
     IN IF out.threw
        THEN \* DashboardPage.tsx:76-90, the catch of handleToolCalls
             /\ pc' = "published"
             /\ last' = [done |-> TRUE, threw |-> TRUE, call |-> toolCall,
                         inState |-> input, inStateAfter |-> out.heap[1]]
        ELSE /\ pc' = "called"
             /\ last' = [done |-> TRUE, threw |-> FALSE, call |-> toolCall,
                         inState |-> input, inStateAfter |-> out.heap[1],
                         result |-> out.result,
                         outState |-> out.heap[out.result.newState]]
  /\ UNCHANGED <<tableData, sorting, columnFilters, clock, batchLen,
                 startState, currentState, toolResults, prevAdd>>
  /\ UNCHANGED <<parserVars, chatVars, visible, turnVars>>

\* the successful addRow summarised for the iteration that follows it
AddSummary(l) ==
  IF l.call.name = "addRow" /\ l.result.success
  THEN [set |-> TRUE, id |-> l.outState.data[Len(l.outState.data)].id,
        before |-> l.inState.data]
  ELSE NoAdd

\* DashboardPage.tsx:48-52,56-60, the toolResults.push of either branch
PushResult(results, toolCallId, success) ==
  Append(results, [toolCallId |-> toolCallId, success |-> success,
                   errorText |-> ~success])

\* DashboardPage.tsx:46-61, the rest of the iteration: on success
\* currentState becomes result.newState, and a tool result is pushed
RecordResult ==
  /\ pc = "called"
  /\ currentState' = IF last.result.success THEN last.outState
                     ELSE last.inStateAfter
  /\ toolResults' = PushResult(toolResults, Len(toolResults) + 1,
                               last.result.success)
  /\ prevAdd' = AddSummary(last)
  /\ last' = NoCall
  /\ pc' = "running"
  /\ UNCHANGED <<tableData, sorting, columnFilters, clock, batchLen,
                 startState>>
  /\ UNCHANGED <<parserVars, chatVars, visible, turnVars>>

\* DashboardPage.tsx:64-66, the loop is over: the updater publishes the state
EndBatch ==
  /\ pc = "running"
  /\ Len(toolResults) = batchLen
  /\ sorting' = currentState.sorting
  /\ columnFilters' = currentState.columnFilters
  /\ tableData' = currentState.data
  /\ pc' = "published"
  /\ UNCHANGED <<clock, batchLen, startState, currentState, toolResults,
                 last, prevAdd>>
  /\ UNCHANGED <<parserVars, chatVars, visible, turnVars>>

\* a millisecond passes between two iterations of the loop
Tick ==
  /\ pc = "running"
  /\ clock - ClockStart < MaxTicks
  /\ clock' = clock + 1
  /\ UNCHANGED <<tableData, sorting, columnFilters, pc, batchLen, startState,
                 currentState, toolResults, last, prevAdd>>
  /\ UNCHANGED <<parserVars, chatVars, visible, turnVars>>

Next ==
  \/ \E n \in 1..MaxBatch : BeginBatch(n)
  \/ \E toolCall \in ToolCalls : ExecuteCall(toolCall)
  \/ RecordResult
  \/ EndBatch
  \/ Tick

Spec == Init /\ [][Next]_vars

\* handleToolCalls on a batch of view calls
NextView ==
  \/ \E n \in 1..MaxBatch : BeginBatch(n)
  \/ \E toolCall \in ViewCalls : ExecuteCall(toolCall)
  \/ RecordResult
  \/ EndBatch
  \/ Tick

SpecView == Init /\ [][NextView]_vars

(***************************************************************************)
(* Properties.                                                             *)
(***************************************************************************)
\* executeToolCall has returned and its result is held by the loop
Called == last.done /\ ~last.threw

CalledTool(name) == Called /\ last.call.name = name

\* the arguments object of the call in progress (undefined fields when the
\* arguments are not an object)
LastArg(f) ==
  IF last.call.arguments.json THEN Get(last.call.arguments.val, f) ELSE Undefined

HasMessage(result) == "kind" \in DOMAIN result.message

\* C1: executeToolCall never throws, whatever the tool name, the arguments
\* string and the table state; a result with success=false carries a
\* message, its newState is the input object (reference 1 of the call's
\* heap), and that object is as it was before the call.
C1_NeverThrows ==
  last.done =>
    /\ ~last.threw
    /\ ~last.result.success =>
         /\ HasMessage(last.result)
         /\ last.result.newState = 1
         /\ last.outState = last.inState

\* C1 witness: an exception raised inside the switch, after newState was
\* assigned to, has been turned into a failed result
C1_Witness ==
  /\ Called
  /\ ~last.result.success
  /\ last.result.message.kind = "ErrorExecuting"
  /\ last.call.name = "filterTable"
  /\ LastArg("value") = PoisonObject

\* C2: the batch is a sequential fold in emission order: each call is
\* executed against the running state, the running state becomes the
\* call's newState on success and stays what it was on failure, every call
\* yields one result, and the batch is published only when all its calls
\* were executed, failed calls or not.
C2_SequentialFold ==
  [][ /\ (pc = "running" /\ pc' = "called") => last'.inState = currentState
      /\ (pc = "called" /\ pc' = "running") =>
           /\ currentState' = IF last.result.success THEN last.outState
                              ELSE currentState
           /\ Len(toolResults') = Len(toolResults) + 1
           /\ toolResults'[Len(toolResults')].success = last.result.success
      /\ (pc = "running" /\ pc' = "published") =>
           /\ Len(toolResults) = batchLen
           /\ tableData' = currentState.data
           /\ sorting' = currentState.sorting
           /\ columnFilters' = currentState.columnFilters ]_vars

\* C2 witness: a call succeeded after a failed call and after a successful
\* call of the same batch, and saw the state the earlier success had made
C2_Witness ==
  /\ pc = "called"
  /\ Len(toolResults) = 2
  /\ toolResults[1].success /\ ~toolResults[2].success
  /\ last.result.success
  /\ last.inState # startState
  /\ last.outState # last.inState

RowsDistinct(data) ==
  \A i, j \in DOMAIN data : i # j => data[i].id # data[j].id

\* C3: after any sequence of tool calls, also several addRow calls of one
\* synchronous batch, all rows of the table have pairwise distinct ids.
C3_DistinctIds ==
  /\ RowsDistinct(tableData)
  /\ pc \in {"running", "called"} => RowsDistinct(currentState.data)

FiltersOf(filters, column) == SelectSeq(filters, LAMBDA f : f.id = column)
FiltersBut(filters, column) == SelectSeq(filters, LAMBDA f : f.id # column)

OneSpecPerColumn(filters) ==
  \A i, j \in DOMAIN filters : i # j => filters[i].id # filters[j].id

\* C4: after a successful filterTable on column c the filter specs of the
\* other columns are those of the input state, in the same order, and c has
\* exactly one spec; and every state reached from the empty filter set has
\* at most one spec per column.
C4_FilterPerColumn ==
  /\ (CalledTool("filterTable") /\ last.result.success) =>
       LET c == normalizeColumn(LastArg("column").v)
       IN /\ FiltersBut(last.outState.columnFilters, c)
               = FiltersBut(last.inState.columnFilters, c)
          /\ Len(FiltersOf(last.outState.columnFilters, c)) = 1
  /\ OneSpecPerColumn(columnFilters)
  /\ pc \in {"running", "called"} => OneSpecPerColumn(currentState.columnFilters)
  /\ Called => OneSpecPerColumn(last.outState.columnFilters)

\* C4 witness: a filter was set on a column that had one, while another
\* column had a filter too
C4_Witness ==
  /\ CalledTool("filterTable") /\ last.result.success
  /\ LET c == normalizeColumn(LastArg("column").v)
     IN /\ FiltersOf(last.inState.columnFilters, c) # <<>>
        /\ FiltersBut(last.inState.columnFilters, c) # <<>>
        /\ last.outState.columnFilters # last.inState.columnFilters

\* C5: executeToolCall never mutates the TableState it is given: after the
\* call, successful or not, the input object holds the rows, sort spec,
\* filter specs and pagination it held before; a change is only in newState.
C5_InputNotMutated ==
  last.done =>
    last.inStateAfter = last.inState

\* C5 witness: a successful call whose newState differs from its input
C5_Witness ==
  /\ Called
  /\ last.result.success
  /\ last.result.newState # 1
  /\ last.outState.data # last.inState.data

\* the five fields of an addRow call, typed as the tool definition types them
FieldsWellTyped ==
  /\ IsString(LastArg("name"))
  /\ LastArg("amount").t = "number"
  /\ LastArg("status") \in {Str(S_active), Str(S_inactive), Str(S_pending)}
  /\ IsString(LastArg("date")) /\ DateRegexTest(LastArg("date").v)
  /\ IsString(LastArg("category"))

\* C6: addRow succeeds only if all five fields are present with correct
\* types, amount included; otherwise success=false and no row is added.
C6_AddRowValidates ==
  CalledTool("addRow") =>
    /\ last.result.success => FieldsWellTyped
    /\ ~FieldsWellTyped => last.outState.data = last.inState.data

\* a string argument that is supplied: present, a string, and not empty
Supplied(x) == IsString(x) /\ x.v # <<>>

\* column and value are both supplied
ColumnValueSupplied == Truthy(LastArg("column")) /\ LastArg("value") # Undefined

\* the call in progress is a deleteRow that targets by column+value, with a
\* valid column and a value that has a string form
DeleteByColumn ==
  /\ CalledTool("deleteRow")
  /\ ~Supplied(LastArg("rowId")) /\ ~Supplied(LastArg("name"))
  /\ ColumnValueSupplied
  /\ validateColumn(LastArg("column")).success
  /\ ~StringThrows(LastArg("value"))

\* the row's value in the column equals the given value: case-insensitive
\* string equality, literal string equality for the date column
ValueMatches(row, column, value) ==
  IF column = S_date
  THEN CellString(row, column) = String(value)
  ELSE toLowerCase(CellString(row, column)) = toLowerCase(String(value))

\* C7: deleteRow by column+value removes all and only the rows whose value
\* in that column equals the given value, keeps the other rows in their
\* order, and the count of the result message is the number of rows removed.
C7_DeleteByColumnExact ==
  (DeleteByColumn /\ last.result.success) =>
    LET c == validateColumn(LastArg("column")).column
    IN /\ last.outState.data =
            SelectSeq(last.inState.data,
                      LAMBDA row : ~ValueMatches(row, c, LastArg("value")))
       /\ last.result.message.count
            = Len(last.inState.data) - Len(last.outState.data)

\* C8: addRow followed by deleteRow with the rowId of the row just added
\* gives back the row sequence from before the addRow.
C8_AddThenDeleteRestores ==
  ( /\ CalledTool("deleteRow")
    /\ prevAdd.set
    /\ LastArg("rowId") = Str(prevAdd.id)
    /\ LastArg("name") = Undefined
    /\ LastArg("column") = Undefined
    /\ LastArg("value") = Undefined ) =>
      /\ last.result.success
      /\ last.outState.data = prevAdd.before

\* the result and new state of deleteRow with the arguments o on the input
\* of the call in progress
DeleteOutcome(o) ==
  LET out == executeToolCall(Call("deleteRow", o), 1, <<last.inState>>, clock)
  IN [result |-> out.result, state |-> out.heap[out.result.newState]]

LastOutcome == [result |-> last.result, state |-> last.outState]

\* C9: deleteRow uses one targeting mode, by the priority rowId > name >
\* column+value: with rowId supplied the outcome is that of the call with
\* rowId alone; with rowId not supplied and name supplied the outcome is
\* that of the call without column and value; with none of the three
\* supplied the call fails with the validation error, state unchanged.
C9_DeletePriority ==
  (CalledTool("deleteRow") /\ last.call.arguments.val.t = "object") =>
    /\ Supplied(LastArg("rowId")) =>
         LastOutcome = DeleteOutcome([rowId |-> LastArg("rowId")])
    /\ (~Supplied(LastArg("rowId")) /\ Supplied(LastArg("name"))) =>
         LastOutcome = DeleteOutcome([rowId |-> LastArg("rowId"),
                                      name |-> LastArg("name")])
    /\ ( /\ ~Supplied(LastArg("rowId")) /\ ~Supplied(LastArg("name"))
         /\ ~ColumnValueSupplied ) =>
         /\ ~last.result.success
         /\ last.result.message.kind = "MustProvide"
         /\ last.outState = last.inState

\* C9 witness: rowId, name, column and value were all supplied, the row of
\* that id was removed and a row of that name is still there
C9_Witness ==
  /\ CalledTool("deleteRow")
  /\ Supplied(LastArg("rowId")) /\ Supplied(LastArg("name"))
  /\ ColumnValueSupplied
  /\ last.result.success
  /\ \E i \in DOMAIN last.outState.data :
       toLowerCase(last.outState.data[i].name) = toLowerCase(LastArg("name").v)
  /\ \A i \in DOMAIN last.outState.data :
       last.outState.data[i].id # LastArg("rowId").v

NoRow(data, Test(_)) == \A i \in DOMAIN data : ~Test(data[i])

\* the failed result names the strings and leaves the rows alone
FailsNaming(names) ==
  /\ ~last.result.success
  /\ \A n \in names : InSeq(n, last.result.message.parts)
  /\ last.outState.data = last.inState.data

\* C10: a deleteRow whose selector matches no row fails with a message
\* naming the selector and leaves the rows unchanged; a deleteRow that
\* reports success has removed at least one row.
C10_DeleteNoMatch ==
  CalledTool("deleteRow") =>
    /\ last.result.success => Len(last.outState.data) < Len(last.inState.data)
    /\ ( /\ Supplied(LastArg("rowId"))
         /\ NoRow(last.inState.data, LAMBDA r : r.id = LastArg("rowId").v) ) =>
         FailsNaming({LastArg("rowId").v})
    /\ ( /\ ~Supplied(LastArg("rowId")) /\ Supplied(LastArg("name"))
         /\ NoRow(last.inState.data,
                  LAMBDA r : toLowerCase(r.name) = toLowerCase(LastArg("name").v)) ) =>
         FailsNaming({LastArg("name").v})
    /\ ( /\ DeleteByColumn
         /\ NoRow(last.inState.data,
                  LAMBDA r : ValueMatches(r, validateColumn(LastArg("column")).column,
                                          LastArg("value"))) ) =>
         FailsNaming({validateColumn(LastArg("column")).column,
                      String(LastArg("value"))})

\* C10 witness: a deleteRow by column+value, on a table with rows, found no
\* row with that value
C10_Witness ==
  /\ DeleteByColumn
  /\ last.inState.data # <<>>
  /\ ~last.result.success
  /\ last.result.message.kind = "ColumnValueNotFound"

(***************************************************************************)
(* The view tools: filterTable, sortTable, clearFilters, clearSorting.     *)
(***************************************************************************)
ViewTools == {"filterTable", "sortTable", "clearFilters", "clearSorting"}

KnownTools == ViewTools \cup {"addRow", "deleteRow"}

\* C11: filterTable, sortTable, clearFilters and clearSorting never change
\* the row sequence: the newState of such a call holds the rows of its
\* input in the same order, a successful clearFilters leaves no filter
\* spec, and so through a whole batch of view calls the running state keeps
\* the rows the batch started from.
C11_RowsKept ==
  /\ (Called /\ last.call.name \in ViewTools) =>
       /\ last.outState.data = last.inState.data
       /\ (last.call.name = "clearFilters" /\ last.result.success) =>
            last.outState.columnFilters = <<>>
  /\ pc \in {"running", "called"} => currentState.data = startState.data

\* C11 witness: clearFilters has run on a state that two valid filterTable
\* calls had given two filter specs
C11_Witness ==
  /\ CalledTool("clearFilters")
  /\ last.result.success
  /\ Len(last.inState.columnFilters) >= 2
  /\ last.inState.data # <<>>
  /\ Len(toolResults) >= 2

\* C12: clearFilters and clearSorting succeed whatever the table state and
\* the arguments string: clearFilters returns success=true with no filter
\* spec, clearSorting returns success=true with no sort entry.
C12_ClearAlwaysSucceeds ==
  /\ (last.done /\ last.call.name = "clearFilters") =>
       /\ ~last.threw
       /\ last.result.success
       /\ last.outState.columnFilters = <<>>
  /\ (last.done /\ last.call.name = "clearSorting") =>
       /\ ~last.threw
       /\ last.result.success
       /\ last.outState.sorting = <<>>

\* the message of a result names the tool
NamesTool(result, name) ==
  /\ HasMessage(result)
  /\ result.message.kind = "UnknownTool"
  /\ result.message.parts = <<name>>

\* C13: for a tool name outside the six known tools, whatever the arguments
\* string, executeToolCall returns success=false with a message that
\* contains the tool name, and newState is the input state.
C13_UnknownToolNamed ==
  (last.done /\ last.call.name \notin KnownTools) =>
    /\ ~last.threw
    /\ ~last.result.success
    /\ NamesTool(last.result, last.call.name)
    /\ last.result.newState = 1
    /\ last.outState = last.inState

\* the five data columns
DataColumns == {S_name, S_amount, S_status, S_date, S_category}

\* the column argument, lowercased and trimmed, when it is a string
NormalizedArg(column) ==
  IF IsString(column) THEN trim(toLowerCase(column.v)) ELSE <<>>

ColumnsOf(specs) == {specs[i].id : i \in 1..Len(specs)}

\* C14: filterTable and sortTable accept a column only if, lowercased and
\* trimmed, it is one of the five data columns, and store the normalized
\* name; otherwise they fail with a message naming the valid set and leave
\* the state unchanged.  Hence the filter-spec keys and the sort entries of
\* every state reached by tool calls are among the five data columns.  (A
\* column that is no string at all may fail with the plainer message that
\* a string is required.)
C14_DataColumnsOnly ==
  /\ (Called /\ last.call.name \in {"filterTable", "sortTable"}
             /\ last.call.arguments.json
             /\ ~DestructureThrows(last.call.arguments.val)) =>
       LET column == NormalizedArg(LastArg("column"))
           stored == IF last.call.name = "filterTable"
                     THEN ColumnsOf(last.outState.columnFilters)
                     ELSE ColumnsOf(last.outState.sorting)
       IN /\ last.result.success => (column \in DataColumns /\ column \in stored)
          /\ column \notin DataColumns =>
               /\ ~last.result.success
               /\ last.result.message.kind \in {"InvalidColumn", "ColumnRequired"}
               /\ last.outState = last.inState
  /\ pc \in {"running", "called"} =>
       /\ ColumnsOf(currentState.columnFilters) \subseteq DataColumns
       /\ ColumnsOf(currentState.sorting) \subseteq DataColumns

(***************************************************************************)
(* parseStreamResponse, frontend/src/utils/streamParser.ts.                *)
(* The closure state of one call is a record st with the fields            *)
(* accumulatedText, accumulatedThinking, isInThinking, tagBuffer,          *)
(* toolCallsMap, toolCallsByIndex and accumulators.                        *)
(***************************************************************************)
\* streamParser.ts:91-92
S_openTag == <<"<","t","h","i","n","k","i","n","g",">">>
S_closeTag == <<"<","/","t","h","i","n","k","i","n","g",">">>
S_thinkingWord == <<"t","h","i","n","k","i","n","g">>
S_lt == <<"<">>
S_emptyObject == <<"{","}">>

Max(a, b) == IF a >= b THEN a ELSE b

\* String.prototype.substring(i, j) for 0 <= i <= j <= length
substring(s, i, j) == SubSeq(s, i + 1, j)

\* String.prototype.startsWith
startsWith(s, prefix) ==
  Len(s) >= Len(prefix) /\ SubSeq(s, 1, Len(prefix)) = prefix

\* String.prototype.includes
includes(s, t) ==
  \E i \in 0..(Len(s) - Len(t)) : SubSeq(s, i + 1, i + Len(t)) = t

\* streamParser.ts:102-104 and 112-114: a tag stands at position i
TagAt(fullText, i, tag) ==
  /\ i + Len(tag) <= Len(fullText)
  /\ toLowerCase(substring(fullText, i, i + Len(tag))) = toLowerCase(tag)

\* FAULTY VARIANT: the end of the chunk is never held back
CarryoverNever(fullText, i) == FALSE

\* streamParser.ts:122-128: the rest of the text from position i is held
\* back for the next chunk
Carryover(fullText, i) ==
  LET remainingChars == Len(fullText) - i
      maxTagLength == Max(Len(S_openTag), Len(S_closeTag))
      partialLower == toLowerCase(substring(fullText, i, Len(fullText)))
  IN /\ remainingChars < maxTagLength
     /\ startsWith(partialLower, S_lt)
     /\ \/ includes(partialLower, S_thinkingWord)
        \/ Len(partialLower) < maxTagLength

\* FAULTY VARIANT: every character goes to the visible text
EmitVisible(out, inThinking, ch) ==
  [out EXCEPT !.text = Append(@, ch)]

\* streamParser.ts:136-140
Emit(out, inThinking, ch) ==
  IF inThinking
  THEN [out EXCEPT !.thinking = Append(@, ch)]
  ELSE [out EXCEPT !.text = Append(@, ch)]

\* streamParser.ts:100-144, the while loop from position i on
RECURSIVE ScanTags(_, _, _, _)
ScanTags(fullText, i, inThinking, out) ==
  IF i >= Len(fullText)
  THEN [text |-> out.text, thinking |-> out.thinking,
        isInThinking |-> inThinking, remainingBuffer |-> <<>>]
  ELSE IF TagAt(fullText, i, S_openTag)
  THEN ScanTags(fullText, i + Len(S_openTag), TRUE, out)
  ELSE IF TagAt(fullText, i, S_closeTag)
  THEN ScanTags(fullText, i + Len(S_closeTag), FALSE, out)
  ELSE IF Carryover(fullText, i)
  THEN [text |-> out.text, thinking |-> out.thinking,
        isInThinking |-> inThinking,
        remainingBuffer |-> substring(fullText, i, Len(fullText))]
  ELSE ScanTags(fullText, i + 1, inThinking, Emit(out, inThinking, fullText[i + 1]))

\* streamParser.ts:85-145
extractThinking(text, inThinking, tagBufferRef) ==
  ScanTags(tagBufferRef \o text, 0, inThinking, [text |-> <<>>, thinking |-> <<>>])

\* streamParser.ts:206-219 and 231-244: a piece of model text is split
\* and appended to the two accumulators
AbsorbText(st, text) ==
  LET extracted == extractThinking(text, st.isInThinking, st.tagBuffer)
  IN [st EXCEPT !.tagBuffer = extracted.remainingBuffer,
                !.isInThinking = extracted.isInThinking,
                !.accumulatedThinking = @ \o extracted.thinking,
                !.accumulatedText = @ \o extracted.text]

(***************************************************************************)
(* Stream events, as JSON.parse returns them.                              *)
(***************************************************************************)
Object(fields) == [t |-> "object", printable |-> TRUE, o |-> fields]

Present(x) == x.t # "undefined"

\* property read x.f, and x?.f when x is undefined
Prop(x, f) ==
  IF "o" \in DOMAIN x /\ f \in DOMAIN x.o THEN x.o[f] ELSE Undefined

\* `parsed.type === name`; the type names are single symbols
TypeIs(x, name) == Prop(x, "type") = Str(<<name>>)

\* `typeof parsed.index === 'number'`
IsNumber(x) == x.t = "number"

\* JSON.stringify(block.input || {}); an input object is given by its text
JSONstringify(input) == IF Truthy(input) THEN input.o.json ELSE S_emptyObject

\* Map.prototype.set: a known key keeps its place in the iteration order
MapSet(map, id, ref) ==
  IF \E i \in DOMAIN map : map[i].id = id
  THEN [i \in DOMAIN map |-> IF map[i].id = id THEN [id |-> id, ref |-> ref] ELSE map[i]]
  ELSE Append(map, [id |-> id, ref |-> ref])

\* `array[index] = ref`, leaving holes (0) below a new last element
ArraySet(array, index, ref) ==
  [i \in 1..Max(Len(array), index + 1) |->
     IF i = index + 1 THEN ref ELSE IF i <= Len(array) THEN array[i] ELSE 0]

\* `array[index]`, 0 for undefined
ArrayGet(array, index) ==
  IF index + 1 \in DOMAIN array THEN array[index + 1] ELSE 0

\* streamParser.ts:171-183 (and 248-254, 263-269): a new accumulator is
\* entered in the map and in the array
Register(st, id, name, arguments, index) ==
  LET ref == Len(st.accumulators) + 1
  IN [st EXCEPT
        !.accumulators = Append(@, [id |-> id, name |-> name, arguments |-> arguments]),
        !.toolCallsMap = MapSet(@, id, ref),
        !.toolCallsByIndex = IF IsNumber(index) THEN ArraySet(@, index.v, ref)
                             ELSE Append(@, ref)]

\* streamParser.ts:166-186
OnToolUseStart(st, ev) ==
  LET toolUse == Prop(ev, "content_block")
  IN IF TypeIs(ev, "content_block_start") /\ TypeIs(toolUse, "tool_use")
        /\ Truthy(Prop(toolUse, "id")) /\ Truthy(Prop(toolUse, "name"))
     THEN Register(st, Prop(toolUse, "id").v, Prop(toolUse, "name").v, <<>>,
                   Prop(ev, "index"))
     ELSE st

\* FAULTY VARIANT: a delta replaces the arguments received so far
AppendArgumentsLast(arguments, partial_json) == partial_json

\* streamParser.ts:199, `targetToolCall.arguments += parsed.delta.partial_json`
AppendArguments(arguments, partial_json) == arguments \o partial_json

\* streamParser.ts:189-196, the accumulator a delta is for; 0 for undefined
TargetToolCall(st, index) ==
  IF IsNumber(index) /\ ArrayGet(st.toolCallsByIndex, index.v) # 0
  THEN ArrayGet(st.toolCallsByIndex, index.v)
  ELSE IF st.toolCallsMap = <<>> THEN 0
  ELSE st.toolCallsMap[Len(st.toolCallsMap)].ref

\* streamParser.ts:188-202
OnInputJsonDelta(st, ev) ==
  LET delta == Prop(ev, "delta")
      targetToolCall == TargetToolCall(st, Prop(ev, "index"))
  IN IF TypeIs(ev, "content_block_delta") /\ TypeIs(delta, "input_json_delta")
        /\ targetToolCall # 0 /\ Truthy(Prop(delta, "partial_json"))
     THEN [st EXCEPT !.accumulators[targetToolCall].arguments =
                        AppendArguments(@, Prop(delta, "partial_json").v)]
     ELSE st

\* streamParser.ts:204-221
OnTextDelta(st, ev) ==
  LET delta == Prop(ev, "delta")
  IN IF TypeIs(ev, "content_block_delta") /\ TypeIs(delta, "text_delta")
        /\ Truthy(Prop(delta, "text"))
     THEN AbsorbText(st, Prop(delta, "text").v)
     ELSE st

\* streamParser.ts:225-255, one block of a message event
OnMessageBlock(st, block, idx) ==
  LET st1 == IF TypeIs(block, "text") /\ Truthy(Prop(block, "text"))
             THEN AbsorbText(st, Prop(block, "text").v)
             ELSE st
  IN IF ~Truthy(block) THEN st
     ELSE IF TypeIs(block, "tool_use") /\ Truthy(Prop(block, "id"))
             /\ Truthy(Prop(block, "name"))
     THEN Register(st1, Prop(block, "id").v, Prop(block, "name").v,
                   JSONstringify(Prop(block, "input")), Num(idx))
     ELSE st1

\* streamParser.ts:260-271, one block of a message_start event
OnMessageStartBlock(st, block, idx) ==
  IF Truthy(block) /\ TypeIs(block, "tool_use") /\ Truthy(Prop(block, "id"))
     /\ Truthy(Prop(block, "name"))
  THEN Register(st, Prop(block, "id").v, Prop(block, "name").v,
                JSONstringify(Prop(block, "input")), Num(idx))
  ELSE st

\* the for loops of streamParser.ts:224 and 260, from block idx on
RECURSIVE OnBlocks(_, _, _, _)
OnBlocks(st, content, idx, start) ==
  IF idx >= Len(content) THEN st
  ELSE OnBlocks(IF start THEN OnMessageStartBlock(st, content[idx + 1], idx)
                ELSE OnMessageBlock(st, content[idx + 1], idx),
                content, idx + 1, start)

\* an array value of the event, as a sequence; empty when it is absent
ArrayOf(x) == IF "a" \in DOMAIN x THEN x.a ELSE <<>>

\* streamParser.ts:223-257
OnMessage(st, ev) ==
  IF TypeIs(ev, "message") /\ Truthy(Prop(ev, "content"))
  THEN OnBlocks(st, ArrayOf(Prop(ev, "content")), 0, FALSE)
  ELSE st

\* streamParser.ts:259-272
OnMessageStart(st, ev) ==
  IF TypeIs(ev, "message_start") /\ Truthy(Prop(Prop(ev, "message"), "content"))
  THEN OnBlocks(st, ArrayOf(Prop(Prop(ev, "message"), "content")), 0, TRUE)
  ELSE st

\* streamParser.ts:166-272, the body of the line loop for one event
HandleEvent(st, ev) ==
  OnMessageStart(OnMessage(OnTextDelta(OnInputJsonDelta(OnToolUseStart(st, ev),
                                                        ev), ev), ev), ev)

\* FAULTY VARIANT: arguments that are no complete JSON object are dropped
FinalArgsChecked(arguments) ==
  IF arguments = <<>> \/ arguments[Len(arguments)] # "}"
  THEN S_emptyObject
  ELSE arguments

\* streamParser.ts:280, `tc.arguments || '{}'`
FinalArgs(arguments) == IF arguments = <<>> THEN S_emptyObject ELSE arguments

\* streamParser.ts:279-306, the result returned when the read loop is over
Finalize(st) ==
  [text |-> st.accumulatedText,
   toolCalls |->
     [i \in DOMAIN st.toolCallsMap |->
        LET tc == st.accumulators[st.toolCallsMap[i].ref]
        IN [id |-> tc.id, type |-> "function",
            function |-> [name |-> tc.name,
                          arguments |-> FinalArgs(tc.arguments)]]],
   thinking |-> st.accumulatedThinking]

\* streamParser.ts:77-83, the closure state when parseStreamResponse starts
NewParser ==
  [accumulatedText |-> <<>>, accumulatedThinking |-> <<>>,
   isInThinking |-> FALSE, tagBuffer |-> <<>>, toolCallsMap |-> <<>>,
   toolCallsByIndex |-> <<>>, accumulators |-> <<>>]

(***************************************************************************)
(* The text a model emits, delivered as text_delta events.                 *)
(***************************************************************************)
T_example == <<"<","t","h","i","n","k","i","n","g",">","h","i","d","d","e","n","<","/","t","h","i","n","k","i","n","g",">","v","i","s","i","b","l","e">>
T_lessThan == <<"a","<","b">>
T_mixedCase == <<"x","<","T","H","I","N","K","I","N","G",">","y","<","/","T","h","i","n","k","i","n","g",">","z">>
T_comparison == <<"i","f"," ","a","<","b"," ","t","h","e","n"," ","c"," ","i","s"," ","d"," ","o","k">>
T_openEnd == <<"<","t","h","i","n","k","i","n","g",">","p","<","q">>
T_strayClose == <<"a","<","/","t","h","i","n","k","i","n","g",">","b">>
T_doubled == <<"<","<","t","h","i","n","k","i","n","g",">","q","<","/","t","h","i","n","k","i","n","g",">",">">>
T_plain == <<"p","l","a","i","n">>
T_nested == <<"<","t","h","i","n","k","i","n","g",">","a","<","t","h","i","n","k","i","n","g",">","b","<","/","t","h","i","n","k","i","n","g",">","c">>
T_cutTag == <<"a","b","<","t","h","i","n","k","i","n","g">>
T_lookalike == <<"<","t","h","i","n","k","i","n",">","g"," ","i","s"," ","n","o"," ","t","a","g">>
S_hidden == <<"h","i","d","d","e","n">>
S_visible == <<"v","i","s","i","b","l","e">>

ModelTexts == {T_example, T_lessThan, T_mixedCase, T_comparison, T_openEnd, T_strayClose, T_doubled, T_plain, T_nested, T_cutTag, T_lookalike}

\* a content_block_delta event carrying a piece of text
TextDeltaEvent(text) ==
  Object([type |-> Str(<<"content_block_delta">>),
          delta |-> Object([type |-> Str(<<"text_delta">>), text |-> Str(text)])])

\* the closure state of the running parseStreamResponse
ParserState ==
  [accumulatedText |-> accumulatedText, accumulatedThinking |-> accumulatedThinking,
   isInThinking |-> isInThinking, tagBuffer |-> tagBuffer,
   toolCallsMap |-> toolCallsMap, toolCallsByIndex |-> toolCallsByIndex,
   accumulators |-> accumulators]

SetParser(st) ==
  /\ accumulatedText' = st.accumulatedText
  /\ accumulatedThinking' = st.accumulatedThinking
  /\ isInThinking' = st.isInThinking
  /\ tagBuffer' = st.tagBuffer
  /\ toolCallsMap' = st.toolCallsMap
  /\ toolCallsByIndex' = st.toolCallsByIndex
  /\ accumulators' = st.accumulators

\* streamParser.ts:75-83, parseStreamResponse has been called on a response
ParserStarted(src, nothing) ==
  /\ source = src
  /\ fed = nothing
  /\ split = FALSE
  /\ decoder = <<>>
  /\ buffer = <<>>
  /\ accumulatedText = NewParser.accumulatedText
  /\ accumulatedThinking = NewParser.accumulatedThinking
  /\ isInThinking = NewParser.isInThinking
  /\ tagBuffer = NewParser.tagBuffer
  /\ toolCallsMap = NewParser.toolCallsMap
  /\ toolCallsByIndex = NewParser.toolCallsByIndex
  /\ accumulators = NewParser.accumulators
  /\ ppc = "reading"
  /\ parsed = NoResult

InitText ==
  /\ DashboardInit
  /\ ChatMounted
  /\ \E text \in ModelTexts : ParserStarted([kind |-> "text", text |-> text], 0)

\* position p (counted from 0) of the text lies strictly inside a tag
InsideTag(text, p) ==
  \E q \in 0..(Len(text) - 1), tag \in {S_openTag, S_closeTag} :
    TagAt(text, q, tag) /\ q < p /\ p < q + Len(tag)

\* streamParser.ts:162-221, a line holding a text_delta event with the next
\* k characters of the text has been read and handled
TextDelta(k) ==
  /\ ppc = "reading"
  /\ source.kind = "text"
  /\ fed + k <= Len(source.text)
  /\ SetParser(HandleEvent(ParserState,
                           TextDeltaEvent(SubSeq(source.text, fed + 1, fed + k))))
  /\ fed' = fed + k
  /\ split' = (split \/ InsideTag(source.text, fed + k))
  /\ UNCHANGED <<source, decoder, buffer, ppc, parsed>>
  /\ UNCHANGED <<vars, chatVars>>

\* streamParser.ts:155-156 and 275-306, read() reports the end of the body
\* and the result is returned
EndOfText ==
  /\ ppc = "reading"
  /\ source.kind = "text"
  /\ fed = Len(source.text)
  /\ parsed' = Finalize(ParserState)
  /\ ppc' = "returned"
  /\ UNCHANGED <<source, fed, split, decoder, buffer, accumulatedText,
                 accumulatedThinking, isInThinking, tagBuffer, toolCallsMap,
                 toolCallsByIndex, accumulators>>
  /\ UNCHANGED <<vars, chatVars>>

NextText ==
  \/ \E k \in 1..Len(source.text) : TextDelta(k)
  \/ EndOfText

allVars == <<vars, parserVars, chatVars>>

SpecText == InitText /\ [][NextText]_allVars

(***************************************************************************)
(* Properties of the tag splitter.                                         *)
(***************************************************************************)
\* the tag spelled, in either case, from position q (counted from 0) on
SpelledAt(text, q, tag) ==
  /\ q + Len(tag) <= Len(text)
  /\ \A j \in 1..Len(tag) : LowerChar(text[q + j]) = tag[j]

IsTagStart(text, q) == SpelledAt(text, q, S_openTag) \/ SpelledAt(text, q, S_closeTag)

\* character p (counted from 1) belongs to a complete tag
InTagText(text, p) ==
  \E q \in 0..(p - 1) :
    \/ SpelledAt(text, q, S_openTag) /\ p <= q + Len(S_openTag)
    \/ SpelledAt(text, q, S_closeTag) /\ p <= q + Len(S_closeTag)

\* character p follows an open tag with no close tag in between
InThinkingSpan(text, p) ==
  \E q \in 0..(p - 1) :
    /\ SpelledAt(text, q, S_openTag)
    /\ \A r \in (q + 1)..(p - 1) : ~IsTagStart(text, r)

Positions(text) == [i \in 1..Len(text) |-> i]

CharsAt(text, ps) == [i \in DOMAIN ps |-> text[ps[i]]]

\* the characters of the text that are to be shown
VisibleOf(text) ==
  CharsAt(text, SelectSeq(Positions(text),
                          LAMBDA p : ~InTagText(text, p) /\ ~InThinkingSpan(text, p)))

\* the characters of the text that are thinking
ThinkingOf(text) ==
  CharsAt(text, SelectSeq(Positions(text),
                          LAMBDA p : ~InTagText(text, p) /\ InThinkingSpan(text, p)))

IsPrefix(s, t) == Len(s) <= Len(t) /\ SubSeq(t, 1, Len(s)) = s

\* what parseStreamResponse returns for the text delivered in one piece
Unsplit(text) == Finalize(HandleEvent(NewParser, TextDeltaEvent(text)))

TextReturned == ppc = "returned" /\ source.kind = "text"

\* C17: whatever the division of a text into consecutive text_delta
\* fragments, a division inside a tag included, the visible text and the
\* thinking text returned are those returned for the unsplit text; the
\* text "<thinking>hidden</thinking>visible" gives thinking "hidden" and
\* text "visible" however it is cut.
C17_FragmentsInvariant ==
  TextReturned =>
    /\ parsed.text = Unsplit(source.text).text
    /\ parsed.thinking = Unsplit(source.text).thinking
    /\ source.text = T_example =>
         (parsed.thinking = S_hidden /\ parsed.text = S_visible)

\* C17 witness: the example text was delivered with a cut inside a tag and
\* came out as thinking "hidden" and text "visible"
C17_Witness ==
  /\ TextReturned
  /\ split
  /\ source.text = T_example
  /\ parsed.thinking = S_hidden
  /\ parsed.text = S_visible

\* C18: when the stream ends, every character of the text that is not part
\* of a complete thinking tag is in the text or the thinking accumulator,
\* in its original order, and the tag carryover buffer holds nothing more.
C18_NothingLost ==
  TextReturned =>
    /\ parsed.text = VisibleOf(source.text)
    /\ parsed.thinking = ThinkingOf(source.text)
    /\ tagBuffer = <<>>

\* C19: the characters between an open tag and the next close tag, tags
\* matched in either case, go to the thinking accumulator only, those
\* outside such a span go to the visible text only, and the characters of
\* the tags go to neither: at every moment each accumulator holds a prefix
\* of the characters of its own kind, in their order.
C19_SpansSeparated ==
  (source.kind = "text" /\ ppc \in {"reading", "returned"}) =>
    /\ IsPrefix(accumulatedText, VisibleOf(source.text))
    /\ IsPrefix(accumulatedThinking, ThinkingOf(source.text))

\* C19 witness: a text with tags in mixed case came out with its span in
\* the thinking accumulator and the rest in the visible text
C19_Witness ==
  /\ TextReturned
  /\ source.text = T_mixedCase
  /\ parsed.thinking = <<"y">>
  /\ parsed.text = <<"x","z">>

(***************************************************************************)
(* Tool calls streamed as a content_block_start event followed by          *)
(* input_json_delta events.                                                *)
(***************************************************************************)
\* the argument JSON of the two tool calls of a response: {"a":1} and {}
A_json == <<"{","\"","a","\"",":","1","}">>
B_json == <<"{","}">>

\* the two tool-use blocks the server streams; index is the position of the
\* block in the response
StreamedCalls ==
  [A |-> [id |-> <<"t","1">>, name |-> <<"sortTable">>, index |-> 0, json |-> A_json],
   B |-> [id |-> <<"t","2">>, name |-> <<"clearFilters">>, index |-> 1, json |-> B_json]]

CallNames == DOMAIN StreamedCalls

\* the index property of the events of a block: some providers leave it out
IndexOf(c, indexed) == IF indexed THEN Num(StreamedCalls[c].index) ELSE Undefined

ToolUseStartEvent(c, indexed) ==
  Object([type |-> Str(<<"content_block_start">>),
          index |-> IndexOf(c, indexed),
          content_block |-> Object([type |-> Str(<<"tool_use">>),
                                    id |-> Str(StreamedCalls[c].id),
                                    name |-> Str(StreamedCalls[c].name)])])

InputJsonDeltaEvent(c, indexed, partial_json) ==
  Object([type |-> Str(<<"content_block_delta">>),
          index |-> IndexOf(c, indexed),
          delta |-> Object([type |-> Str(<<"input_json_delta">>),
                            partial_json |-> Str(partial_json)])])

\* nothing streamed yet: no block started, no argument character sent
NothingFed ==
  [started |-> <<>>, indexed |-> [c \in CallNames |-> FALSE],
   sent |-> [c \in CallNames |-> 0]]

InitCalls ==
  /\ DashboardInit
  /\ ChatMounted
  /\ ParserStarted([kind |-> "calls"], NothingFed)

\* streamParser.ts:162-186, a line holding the content_block_start event of
\* tool call c has been read and handled
ToolUseStart(c, indexed) ==
  /\ ppc = "reading"
  /\ source.kind = "calls"
  /\ \A i \in DOMAIN fed.started : fed.started[i] # c
  /\ SetParser(HandleEvent(ParserState, ToolUseStartEvent(c, indexed)))
  /\ fed' = [fed EXCEPT !.started = Append(@, c), !.indexed[c] = indexed]
  /\ UNCHANGED <<source, split, decoder, buffer, ppc, parsed>>
  /\ UNCHANGED <<vars, chatVars>>

\* the block whose events carry no index is the one started last
MayContinue(c) ==
  /\ \E i \in DOMAIN fed.started : fed.started[i] = c
  /\ fed.indexed[c] \/ fed.started[Len(fed.started)] = c

\* streamParser.ts:162-202, a line holding an input_json_delta event with
\* the next k characters of the arguments of tool call c has been read and
\* handled
InputJsonDelta(c, k) ==
  /\ ppc = "reading"
  /\ source.kind = "calls"
  /\ MayContinue(c)
  /\ fed.sent[c] + k <= Len(StreamedCalls[c].json)
  /\ SetParser(HandleEvent(ParserState,
        InputJsonDeltaEvent(c, fed.indexed[c],
          SubSeq(StreamedCalls[c].json, fed.sent[c] + 1, fed.sent[c] + k))))
  /\ fed' = [fed EXCEPT !.sent[c] = @ + k]
  /\ split' = (split \/ (k > 0 /\ fed.sent[c] + k < Len(StreamedCalls[c].json)))
  /\ UNCHANGED <<source, decoder, buffer, ppc, parsed>>
  /\ UNCHANGED <<vars, chatVars>>

\* streamParser.ts:155-156 and 275-306, the body ends and the result is
\* returned
EndOfCalls ==
  /\ ppc = "reading"
  /\ source.kind = "calls"
  /\ parsed' = Finalize(ParserState)
  /\ ppc' = "returned"
  /\ UNCHANGED <<source, fed, split, decoder, buffer, accumulatedText,
                 accumulatedThinking, isInThinking, tagBuffer, toolCallsMap,
                 toolCallsByIndex, accumulators>>
  /\ UNCHANGED <<vars, chatVars>>

NextCalls ==
  \/ \E c \in CallNames, indexed \in BOOLEAN : ToolUseStart(c, indexed)
  \/ \E c \in CallNames, k \in 0..Len(A_json) : InputJsonDelta(c, k)
  \/ EndOfCalls

SpecCalls == InitCalls /\ [][NextCalls]_allVars

CallsReturned == ppc = "returned" /\ source.kind = "calls"

\* the fragments delivered for call c so far, concatenated in arrival order
Delivered(c) == SubSeq(StreamedCalls[c].json, 1, fed.sent[c])

\* the returned tool calls are the started ones, in the order they started
ReturnsStarted ==
  /\ Len(parsed.toolCalls) = Len(fed.started)
  /\ \A i \in DOMAIN fed.started :
       /\ parsed.toolCalls[i].id = StreamedCalls[fed.started[i]].id
       /\ parsed.toolCalls[i].function.name = StreamedCalls[fed.started[i]].name

MaxLines == 3
\* a read() returns the rest of the body, or up to this many elements of it
MaxChunk == 3

LF == "\n"
S_dataPrefix == <<"d","a","t","a",":"," ">>
S_DONE == <<"[","D","O","N","E","]">>

\* the two bytes of U+00E9 in UTF-8, the character, and U+FFFD
LeadByte == "0xC3"
ContinuationByte == "0xA9"
Accented == "U+00E9"
Replacement == "U+FFFD"

\* FAULTY VARIANT: decode(value) without {stream: true}: an incomplete
\* character at the end of the chunk is replaced, nothing is held back
RECURSIVE DecodeAlone(_, _)
DecodeAlone(pending, bytes) ==
  IF bytes = <<>>
  THEN [text |-> IF pending = <<>> THEN <<>> ELSE <<Replacement>>, pending |-> <<>>]
  ELSE LET b == Head(bytes)
           rest == DecodeAlone(<<>>, Tail(bytes))
       IN IF pending # <<>>
          THEN IF b = ContinuationByte
               THEN [rest EXCEPT !.text = <<Accented>> \o @]
               ELSE LET again == DecodeAlone(<<>>, bytes)
                    IN [again EXCEPT !.text = <<Replacement>> \o @]
          ELSE IF b = LeadByte THEN DecodeAlone(<<b>>, Tail(bytes))
          ELSE IF b = ContinuationByte
          THEN [rest EXCEPT !.text = <<Replacement>> \o @]
          ELSE [rest EXCEPT !.text = <<b>> \o @]

\* streamParser.ts:158, decoder.decode(value, {stream: true}): the text of
\* the bytes, and the bytes of an incomplete character held back
RECURSIVE Decode(_, _)
Decode(pending, bytes) ==
  IF bytes = <<>>
  THEN [text |-> <<>>, pending |-> pending]
  ELSE LET b == Head(bytes)
           rest == Decode(<<>>, Tail(bytes))
       IN IF pending # <<>>
          THEN IF b = ContinuationByte
               THEN [rest EXCEPT !.text = <<Accented>> \o @]
               ELSE LET again == Decode(<<>>, bytes)
                    IN [again EXCEPT !.text = <<Replacement>> \o @]
          ELSE IF b = LeadByte THEN Decode(<<b>>, Tail(bytes))
          ELSE IF b = ContinuationByte
          THEN [rest EXCEPT !.text = <<Replacement>> \o @]
          ELSE [rest EXCEPT !.text = <<b>> \o @]

\* String.prototype.split('\n')
RECURSIVE SplitLines(_)
SplitLines(s) ==
  IF \E i \in DOMAIN s : s[i] = LF
  THEN LET i == CHOOSE i \in DOMAIN s :
                  s[i] = LF /\ \A j \in 1..(i - 1) : s[j] # LF
       IN <<SubSeq(s, 1, i - 1)>> \o SplitLines(SubSeq(s, i + 1, Len(s)))
  ELSE <<s>>

\* FAULTY VARIANT: the unfinished last line is dropped
KeepNothing(pieces) == <<>>

\* streamParser.ts:160, `buffer = lines.pop() || ''`
KeepTail(pieces) == pieces[Len(pieces)]

(***************************************************************************)
(* JSON payloads and the values JSON.parse gives for them.                 *)
(***************************************************************************)
J_textDeltaHead == "{\"type\":\"content_block_delta\",\"delta\":{\"type\":\"text_delta\","
J_textHi == "\"text\":\"hi\"}}"
J_textOpen == "\"text\":\""
J_textClose == "\"}}"
J_startHead == "{\"type\":\"content_block_start\",\"index\":0,"
J_startBlock == "\"content_block\":{\"type\":\"tool_use\",\"id\":\"t1\",\"name\":\"sortTable\"}}"
J_argsHead == "{\"type\":\"content_block_delta\",\"index\":0,"
J_argsDelta == "\"delta\":{\"type\":\"input_json_delta\",\"partial_json\":\"{}\"}}"

\* the payloads of the model that are JSON texts, with their values
JsonTexts ==
  { [text |-> <<J_textDeltaHead, J_textHi>>,
     value |-> TextDeltaEvent(<<"h","i">>)],
    [text |-> <<J_textDeltaHead, J_textOpen, Accented, J_textClose>>,
     value |-> TextDeltaEvent(<<Accented>>)],
    [text |-> <<J_startHead, J_startBlock>>,
     value |-> ToolUseStartEvent("A", TRUE)],
    [text |-> <<J_argsHead, J_argsDelta>>,
     value |-> InputJsonDeltaEvent("A", TRUE, B_json)] }

\* JSON.parse: the value of a JSON text; it throws for any other string
JSONparse(data) ==
  IF \E j \in JsonTexts : j.text = data
  THEN [threw |-> FALSE, value |-> (CHOOSE j \in JsonTexts : j.text = data).value]
  ELSE [threw |-> TRUE]

NullEvent == [kind |-> "null"]
ThrownError == [kind |-> "throw"]
ParsedEvent(ev) == [kind |-> "event", event |-> ev]

\* FAULTY VARIANT: no catch around JSON.parse
parseSSEEventNoCatch(line) ==
  IF ~startsWith(line, S_dataPrefix) THEN NullEvent
  ELSE LET data == SubSeq(line, Len(S_dataPrefix) + 1, Len(line))
       IN IF data = S_DONE THEN ParsedEvent(Object([type |-> Str(<<"done">>)]))
          ELSE IF JSONparse(data).threw THEN ThrownError
          ELSE ParsedEvent(JSONparse(data).value)

\* streamParser.ts:22-37
parseSSEEvent(line) ==
  IF ~startsWith(line, S_dataPrefix) THEN NullEvent
  ELSE LET data == SubSeq(line, Len(S_dataPrefix) + 1, Len(line))
       IN IF data = S_DONE THEN ParsedEvent(Object([type |-> Str(<<"done">>)]))
          ELSE IF JSONparse(data).threw THEN NullEvent
          ELSE ParsedEvent(JSONparse(data).value)

\* streamParser.ts:162-273, the line loop from line i on; failed when an
\* exception leaves it
RECURSIVE HandleLines(_, _, _)
HandleLines(st, lines, i) ==
  IF i > Len(lines) THEN [failed |-> FALSE, st |-> st]
  ELSE LET ev == parseSSEEvent(lines[i])
       IN IF ev.kind = "throw" THEN [failed |-> TRUE, st |-> st]
          ELSE IF ev.kind = "null" \/ ~Truthy(ev.event)
          THEN HandleLines(st, lines, i + 1)
          ELSE HandleLines(HandleEvent(st, ev.event), lines, i + 1)

\* streamParser.ts:158-273, one turn of the read loop on the bytes `value`
ReadStep(st, pending, buf, value) ==
  LET decoded == Decode(pending, value)
      pieces == SplitLines(buf \o decoded.text)
      handled == HandleLines(st, SubSeq(pieces, 1, Len(pieces) - 1), 1)
  IN [failed |-> handled.failed, st |-> handled.st,
      decoder |-> decoded.pending, buffer |-> KeepTail(pieces)]

(***************************************************************************)
(* The lines a server sends.                                               *)
(***************************************************************************)
L_text == S_dataPrefix \o <<J_textDeltaHead, J_textHi>>
L_accent == S_dataPrefix \o <<J_textDeltaHead, J_textOpen, LeadByte, ContinuationByte, J_textClose>>
L_start == S_dataPrefix \o <<J_startHead, J_startBlock>>
L_args == S_dataPrefix \o <<J_argsHead, J_argsDelta>>
L_done == S_dataPrefix \o S_DONE
L_comment == <<":", "keep-alive">>
L_broken == S_dataPrefix \o <<J_textDeltaHead>>

\* lines that carry an event
EventLines == {L_text, L_accent, L_start, L_args}
\* lines without the prefix, or with a payload that is no JSON text
SkippedLines == {L_comment, L_broken, L_done}

ServerLines == EventLines \cup SkippedLines

RECURSIVE SeqsUpTo(_, _)
SeqsUpTo(S, n) ==
  IF n = 0 THEN {<<>>}
  ELSE LET shorter == SeqsUpTo(S, n - 1)
       IN shorter \cup {Append(s, x) : s \in shorter, x \in S}

\* the bytes of a body made of these lines, each ended by a line feed
RECURSIVE Body(_)
Body(lines) ==
  IF lines = <<>> THEN <<>> ELSE Head(lines) \o <<LF>> \o Body(Tail(lines))

InitBytes ==
  /\ DashboardInit
  /\ ChatMounted
  /\ \E lines \in SeqsUpTo(ServerLines, MaxLines) \ {<<>>} :
       ParserStarted([kind |-> "bytes", lines |-> lines, bytes |-> Body(lines)], 0)

\* streamParser.ts:155-273, read() returns the next k elements of the body
\* and the loop handles the lines they complete
Read(k) ==
  /\ ppc = "reading"
  /\ source.kind = "bytes"
  /\ fed + k <= Len(source.bytes)
  /\ LET step == ReadStep(ParserState, decoder, buffer,
                          SubSeq(source.bytes, fed + 1, fed + k))
     IN /\ SetParser(step.st)
        /\ decoder' = step.decoder
        /\ buffer' = step.buffer
        /\ ppc' = IF step.failed THEN "rejected" ELSE "reading"
  /\ fed' = fed + k
  /\ split' = (split \/ source.bytes[fed + k] # LF)
  /\ UNCHANGED <<source, parsed>>
  /\ UNCHANGED <<vars, chatVars>>

\* streamParser.ts:155-273, read() returns all the rest of the body
ReadRest ==
  /\ fed < Len(source.bytes)
  /\ Read(Len(source.bytes) - fed)

\* streamParser.ts:155-156 and 275-306, read() reports that the body has
\* ended (the connection may close before the server has sent every line)
\* and the result is returned
EndOfBody ==
  /\ ppc = "reading"
  /\ source.kind = "bytes"
  /\ parsed' = Finalize(ParserState)
  /\ ppc' = "returned"
  /\ UNCHANGED <<source, fed, split, decoder, buffer, accumulatedText,
                 accumulatedThinking, isInThinking, tagBuffer, toolCallsMap,
                 toolCallsByIndex, accumulators>>
  /\ UNCHANGED <<vars, chatVars>>

NextBytes ==
  \/ \E k \in 1..MaxChunk : Read(k)
  \/ ReadRest
  \/ EndOfBody

SpecBytes == InitBytes /\ [][NextBytes]_allVars

(***************************************************************************)
(* Properties of the read loop.                                            *)
(***************************************************************************)
\* what parseStreamResponse does with a body that arrives in a single read
WholeBody(bytes) ==
  IF bytes = <<>>
  THEN [failed |-> FALSE, result |-> Finalize(NewParser)]
  ELSE LET step == ReadStep(NewParser, <<>>, <<>>, bytes)
       IN [failed |-> step.failed, result |-> Finalize(step.st)]

BytesOver == source.kind = "bytes" /\ ppc \in {"returned", "rejected"}

\* the bytes read() has handed over
BytesRead == SubSeq(source.bytes, 1, fed)

\* C15: the text, thinking and tool calls returned depend only on the bytes
\* of the body, not on how read() divided them: they are those returned
\* when the same bytes arrive in a single read, so an event line that
\* arrives in two or more reads is handled once, as the same event.
C15_ChunksInvariant ==
  BytesOver =>
    /\ ppc = "returned"
    /\ parsed = WholeBody(BytesRead).result

\* C15 witness: a tool call, its arguments and an accented text arrived in
\* chunks that ended inside lines, and all three were returned
C15_Witness ==
  /\ BytesOver
  /\ split
  /\ source.lines = <<L_start, L_args, L_accent>>
  /\ fed = Len(source.bytes)
  /\ parsed.text = <<Accented>>
  /\ Len(parsed.toolCalls) = 1
  /\ parsed.toolCalls[1].function.arguments = B_json

\* the lines of a body that carry an event
KeptLines(lines) == SelectSeq(lines, LAMBDA l : l \in EventLines)

\* C20: a line without the "data: " prefix and a "data: " line whose
\* payload is no JSON text are skipped and do not end the decode: a body
\* with such lines gives the result of the body without them.
C20_BadLinesSkipped ==
  (BytesOver /\ fed = Len(source.bytes)) =>
    /\ ppc = "returned"
    /\ parsed = WholeBody(Body(KeptLines(source.lines))).result

\* C20 witness: a broken JSON line stood between the start of a tool call
\* and its arguments, and the call was returned with its arguments
C20_Witness ==
  /\ BytesOver
  /\ fed = Len(source.bytes)
  /\ source.lines = <<L_start, L_broken, L_args>>
  /\ Len(parsed.toolCalls) = 1
  /\ parsed.toolCalls[1].function.arguments = B_json

(***************************************************************************)
(* The [DONE] line.                                                        *)
(***************************************************************************)
\* the lines of a body that stand before its first "data: [DONE]" line
RECURSIVE BeforeDone(_)
BeforeDone(lines) ==
  IF lines = <<>> \/ Head(lines) = L_done THEN <<>>
  ELSE <<Head(lines)>> \o BeforeDone(Tail(lines))

\* C21: a "data: [DONE]" line ends the logical stream: once the whole body
\* has been read, the text, thinking and tool calls returned are those of
\* the lines that stand before the first [DONE] line; lines that arrive
\* after it change nothing.
C21_DoneEndsStream ==
  (BytesOver /\ fed = Len(source.bytes)) =>
    /\ ppc = "returned"
    /\ parsed = WholeBody(Body(BeforeDone(source.lines))).result

(***************************************************************************)
(* The chat: useChat (useChat.ts:29-349), sendChatRequest and              *)
(* processStreamResponse (chat.service.ts:25-152).  Every request is at    *)
(* one of its awaits: "fetch" (chat.service.ts:53), "errorBody" (:63),     *)
(* "import" (:105), "read" (streamParser.ts:155), or it is "done".  A      *)
(* state setter is applied when it is called; messagesRef follows          *)
(* messages when the effect of useChat.ts:45-47 runs, which is after the   *)
(* task that called the setter and before the next event is handled.       *)
(***************************************************************************)
\* requests sent during a run
MaxRequests == 3
\* chunks the response bodies of a run deliver in all
MaxReads == 1

ChatState ==
  [messages |-> messages, isStreaming |-> isStreaming,
   streamingText |-> streamingText, streamingToolCalls |-> streamingToolCalls,
   isExecutingTool |-> isExecutingTool, messagesRef |-> messagesRef,
   abortControllerRef |-> abortControllerRef,
   streamingAssistantMessageIdRef |-> streamingAssistantMessageIdRef,
   streamingTextRef |-> streamingTextRef,
   streamingToolCallsRef |-> streamingToolCallsRef,
   errors |-> errors, executions |-> executions, messageIds |-> messageIds]

SetChat(c) ==
  /\ messages' = c.messages
  /\ isStreaming' = c.isStreaming
  /\ streamingText' = c.streamingText
  /\ streamingToolCalls' = c.streamingToolCalls
  /\ isExecutingTool' = c.isExecutingTool
  /\ messagesRef' = c.messagesRef
  /\ abortControllerRef' = c.abortControllerRef
  /\ streamingAssistantMessageIdRef' = c.streamingAssistantMessageIdRef
  /\ streamingTextRef' = c.streamingTextRef
  /\ streamingToolCallsRef' = c.streamingToolCallsRef
  /\ errors' = c.errors
  /\ executions' = c.executions
  /\ messageIds' = c.messageIds

\* useChat.ts:49-57
resetStreamingState(c) ==
  [c EXCEPT !.isStreaming = FALSE, !.streamingText = <<>>,
            !.streamingToolCalls = <<>>, !.streamingTextRef = <<>>,
            !.streamingToolCallsRef = <<>>,
            !.streamingAssistantMessageIdRef = NullRef,
            !.abortControllerRef = NullRef]

\* useChat.ts:112-117, the streaming state of a request that starts
StartStreaming(c) ==
  [c EXCEPT !.isStreaming = TRUE, !.streamingText = <<>>,
            !.streamingToolCalls = <<>>, !.streamingTextRef = <<>>,
            !.streamingToolCallsRef = <<>>]

\* the errors a request can end with
AbortError == [name |-> "AbortError", message |-> "The operation was aborted"]
FetchFailed == [name |-> "TypeError", message |-> "Failed to fetch"]
HttpError == [name |-> "Error", message |-> "HTTP error! status: 500"]
NoResponseBody == [name |-> "Error", message |-> "No response body"]

\* useChat.ts:131-143 and 258-269, onText
OnText(c, text) ==
  [c EXCEPT !.streamingText = text, !.streamingTextRef = text,
            !.messages = [i \in DOMAIN @ |->
               IF @[i].id = c.streamingAssistantMessageIdRef
               THEN [@[i] EXCEPT !.content = text] ELSE @[i]]]

\* useChat.ts:145-157 and 271-282, onToolCalls
OnToolCalls(c, toolCalls) ==
  [c EXCEPT !.streamingToolCalls = toolCalls,
            !.streamingToolCallsRef = toolCalls,
            !.messages = [i \in DOMAIN @ |->
               IF @[i].id = c.streamingAssistantMessageIdRef
               THEN [@[i] EXCEPT !.toolCalls = toolCalls] ELSE @[i]]]

\* useChat.ts:159-173 and 284-298, the message update of onComplete
CompleteMessage(c, text, toolCalls) ==
  LET finalText == IF text # <<>> THEN text ELSE c.streamingTextRef
  IN [c EXCEPT !.messages = [i \in DOMAIN @ |->
        IF @[i].id = c.streamingAssistantMessageIdRef
        THEN [@[i] EXCEPT !.content = finalText,
                          !.toolCalls = IF Len(toolCalls) > 0 THEN toolCalls
                                        ELSE @]
        ELSE @[i]]]

\* useChat.ts:183-186 and 310-315, onError of the request r
OnError(c, r, error) ==
  LET ended == IF requests[r].from = "sendToolResults"
               THEN [c EXCEPT !.isExecutingTool = FALSE] ELSE c
  IN [resetStreamingState(ended) EXCEPT
        !.errors = Append(@, [request |-> r, name |-> error.name,
                              message |-> error.message])]

\* FAULTY VARIANT: every error that reaches the catch is reported
sendChatRequestCatchAny(c, r, error) ==
  IF error.message = NoResponseBody.message THEN c ELSE OnError(c, r, error)

\* chat.service.ts:79-88, the catch of sendChatRequest
sendChatRequestCatch(c, r, error) ==
  IF error.name = "AbortError" THEN c
  ELSE IF error.message = NoResponseBody.message THEN c
  ELSE OnError(c, r, error)

\* a request as sendChatRequest starts it (chat.service.ts:25-60)
NewRequest(from) ==
  [from |-> from, pc |-> "fetch", aborted |-> FALSE, abortedAt |-> "never",
   trouble |-> "none", reads |-> 0, accumulatedText |-> <<>>,
   toolCallsMap |-> <<>>, reader |-> "none", completions |-> 0]

\* streamParser.ts:75, `const reader = stream.getReader()` locks the body
getReader(reqs, r) == [reqs EXCEPT ![r].reader = "locked"]

\* FAULTY VARIANT: the lock is released at the end of the body only
releaseLockAtEnd(reqs, r) ==
  [reqs EXCEPT ![r].reader = IF reqs[r].aborted \/ reqs[r].trouble # "none"
                             THEN @ ELSE "released"]

\* streamParser.ts:275-277, the finally of the read loop
releaseLock(reqs, r) == [reqs EXCEPT ![r].reader = "released"]

\* chat.service.ts:93-96, abort() of the handle in abortControllerRef;
\* abortedAt keeps the await the request was at when it was first aborted
Abort(reqs, ref) ==
  IF ref = NullRef THEN reqs
  ELSE [reqs EXCEPT ![ref].aborted = TRUE,
                    ![ref].abortedAt = IF reqs[ref].aborted THEN @
                                       ELSE reqs[ref].pc]

NewMessage(id, role, content) ==
  [id |-> id, role |-> role, content |-> content, toolCalls |-> <<>>,
   toolCallId |-> NullRef]

\* DashboardPage.tsx:48-60, the tool results of a batch
ResultsOf(toolCalls) ==
  [i \in DOMAIN toolCalls |->
     [toolCallId |-> toolCalls[i].id, result |-> <<"o","k">>, success |-> TRUE]]

\* useChat.ts:202-319, sendToolResults: the chat and the requests after it
sendToolResults(c, reqs, results) ==
  IF Len(results) = 0
  THEN [chat |-> resetStreamingState([c EXCEPT !.isExecutingTool = FALSE]),
        requests |-> reqs]
  ELSE LET toolResultMessages ==
             [i \in DOMAIN results |->
                [NewMessage(c.messageIds + i, "tool", results[i].result)
                   EXCEPT !.toolCallId = results[i].toolCallId]]
           assistantMessageId == c.messageIds + Len(results) + 1
           followUpAssistantMessage ==
             NewMessage(assistantMessageId, "assistant", <<>>)
           newMessages == c.messagesRef \o toolResultMessages
                            \o <<followUpAssistantMessage>>
           started == StartStreaming(
             [c EXCEPT !.messages = newMessages,
                       !.streamingAssistantMessageIdRef = assistantMessageId,
                       !.messageIds = assistantMessageId])
       IN [chat |-> [started EXCEPT !.abortControllerRef = Len(reqs) + 1],
           requests |-> Append(Abort(reqs, c.abortControllerRef),
                               NewRequest("sendToolResults"))]

\* useChat.ts:159-181 and 284-308, onComplete of the request r, with
\* handleToolCalls (DashboardPage.tsx:27-93) when there are tool calls;
\* submit says whether handleToolCalls found tool results to send
OnComplete(c, reqs, r, text, toolCalls, submit) ==
  LET shown == CompleteMessage(c, text, toolCalls)
  IN IF Len(toolCalls) > 0
     THEN LET executing ==
                [shown EXCEPT !.isExecutingTool = TRUE,
                              !.executions = Append(@, [request |-> r,
                                                        toolCalls |-> toolCalls])]
          IN IF submit
             THEN sendToolResults(executing, reqs, ResultsOf(toolCalls))
             ELSE [chat |-> executing, requests |-> reqs]
     ELSE [chat |-> resetStreamingState(
                      IF reqs[r].from = "sendToolResults"
                      THEN [shown EXCEPT !.isExecutingTool = FALSE]
                      ELSE shown),
           requests |-> reqs]

\* chat.service.ts:139-150, the end of processStreamResponse
Complete(c, reqs, r, text, toolCalls, submit) ==
  OnComplete(IF Len(toolCalls) > 0 THEN OnToolCalls(c, toolCalls) ELSE c,
             [reqs EXCEPT ![r].completions = @ + 1], r, text, toolCalls,
             submit)

Done(reqs, r) == [reqs EXCEPT ![r].pc = "done"]

\* the chat and the requests after an event
Outcome(c, reqs) == [chat |-> c, requests |-> reqs]

\* an event is handled once the render that followed the event before it
\* has run its effect
Becomes(out) ==
  /\ messagesRef = messages
  /\ SetChat(out.chat)
  /\ requests' = out.requests
  /\ UNCHANGED <<vars, parserVars, submitted>>

Awaits(r, at) == r \in DOMAIN requests /\ requests[r].pc = at

\* the chunks read so far by the requests from r on
RECURSIVE ReadsFrom(_)
ReadsFrom(r) ==
  IF r > Len(requests) THEN 0 ELSE requests[r].reads + ReadsFrom(r + 1)

\* useChat.ts:88-129 and 188-193, sendMessage with a message typed in
SendMessage ==
  /\ ~isStreaming
  /\ Len(requests) < MaxRequests
  /\ LET c == ChatState
         userMessage == NewMessage(messageIds + 1, "user", <<"g","o">>)
         assistantMessageId == messageIds + 2
         initialAssistantMessage ==
           NewMessage(assistantMessageId, "assistant", <<>>)
         newMessages == messagesRef \o <<userMessage>>
         started == StartStreaming(
           [c EXCEPT !.messages = Append(newMessages, initialAssistantMessage),
                     !.streamingAssistantMessageIdRef = assistantMessageId,
                     !.messageIds = assistantMessageId])
     IN Becomes(Outcome(
          [started EXCEPT !.abortControllerRef = Len(requests) + 1],
          Append(Abort(requests, abortControllerRef),
                 NewRequest("sendMessage"))))

\* useChat.ts:195-200, cancelRequest
CancelRequest ==
  /\ abortControllerRef # NullRef
  /\ Becomes(Outcome(resetStreamingState(ChatState),
                     Abort(requests, abortControllerRef)))

\* useChat.ts:45-47, the effect that follows a render
Render ==
  /\ messagesRef # messages
  /\ messagesRef' = messages
  /\ UNCHANGED <<messages, isStreaming, streamingText, streamingToolCalls,
                 isExecutingTool, abortControllerRef,
                 streamingAssistantMessageIdRef, streamingTextRef,
                 streamingToolCallsRef, requests, errors, executions,
                 messageIds, submitted>>
  /\ UNCHANGED <<vars, parserVars>>

\* chat.service.ts:53-60 and 79-83, fetch rejects because the request was
\* aborted
FetchAborted(r) ==
  /\ Awaits(r, "fetch")
  /\ requests[r].aborted
  /\ Becomes(Outcome(sendChatRequestCatch(ChatState, r, AbortError),
                     Done(requests, r)))

\* chat.service.ts:53-60 and 79-88, fetch rejects because the server cannot
\* be reached
FetchFails(r) ==
  /\ Awaits(r, "fetch")
  /\ ~requests[r].aborted
  /\ Becomes(Outcome(sendChatRequestCatch(ChatState, r, FetchFailed),
                     [Done(requests, r) EXCEPT ![r].trouble = "unreachable"]))

\* chat.service.ts:53-77, fetch resolves with a response: one with a body
\* to read ("stream"), one that is not ok ("error"), or one without body
FetchResolves(r, kind) ==
  /\ Awaits(r, "fetch")
  /\ ~requests[r].aborted
  /\ CASE kind = "stream" ->
            Becomes(Outcome(ChatState, [requests EXCEPT ![r].pc = "import"]))
       [] kind = "error" ->
            Becomes(Outcome(ChatState,
                            [requests EXCEPT ![r].pc = "errorBody",
                                             ![r].trouble = "error"]))
       [] kind = "nobody" ->
            Becomes(Outcome(
              sendChatRequestCatch(OnError(ChatState, r, NoResponseBody),
                                   r, NoResponseBody),
              [Done(requests, r) EXCEPT ![r].trouble = "nobody"]))

\* chat.service.ts:62-69 and 79-88, parseApiError returns (it catches the
\* rejection of response.text() when the request was aborted meanwhile)
ErrorBodyRead(r) ==
  /\ Awaits(r, "errorBody")
  /\ Becomes(Outcome(
       sendChatRequestCatch(OnError(ChatState, r, HttpError), r, HttpError),
       Done(requests, r)))

\* chat.service.ts:105-150 and streamParser.ts:75-153, the import resolves
\* and parseStreamResponse reaches its loop: it leaves it at once when the
\* signal is aborted, and the empty result is completed
ImportResolves(r) ==
  /\ Awaits(r, "import")
  /\ IF requests[r].aborted
     THEN Becomes(Complete(ChatState,
                           Done(releaseLock(getReader(requests, r), r), r),
                           r, <<>>, <<>>, FALSE))
     ELSE Becomes(Outcome(ChatState,
                          [getReader(requests, r) EXCEPT ![r].pc = "read"]))

\* chat.service.ts:111-114, onTextDelta
OnTextDelta_(c, reqs, r, text) ==
  LET accumulated == reqs[r].accumulatedText \o text
  IN Outcome(OnText(c, accumulated),
             [reqs EXCEPT ![r].accumulatedText = accumulated])

\* chat.service.ts:115-128, onToolCallStart
OnToolCallStart(c, reqs, r, id, name) ==
  LET partialToolCall ==
        [id |-> id, type |-> "function",
         function |-> [name |-> name, arguments |-> S_emptyObject]]
      currentToolCalls == Append(reqs[r].toolCallsMap, partialToolCall)
  IN Outcome(OnToolCalls(c, currentToolCalls),
             [reqs EXCEPT ![r].toolCallsMap = currentToolCalls])

\* streamParser.ts:155-221, read() resolves with a chunk that holds one
\* event line: a text_delta or the content_block_start of a tool call
ReadResolves(r, chunk) ==
  /\ Awaits(r, "read")
  /\ ~requests[r].aborted
  /\ ReadsFrom(1) < MaxReads
  /\ LET reqs == [requests EXCEPT ![r].reads = @ + 1]
     IN IF chunk = "text"
        THEN Becomes(OnTextDelta_(ChatState, reqs, r, <<"h","i">>))
        ELSE Becomes(OnToolCallStart(ChatState, reqs, r,
                                     <<r, reqs[r].reads>>, "sortTable"))

\* streamParser.ts:155-156 and 275-306, chat.service.ts:139-150: read()
\* reports the end of the body and the result is completed
ReadDone(r, submit) ==
  /\ Awaits(r, "read")
  /\ ~requests[r].aborted
  /\ submit => (Len(requests[r].toolCallsMap) > 0
                /\ Len(requests) < MaxRequests)
  /\ Becomes(Complete(ChatState, Done(releaseLock(requests, r), r), r,
                      requests[r].accumulatedText, requests[r].toolCallsMap,
                      submit))

\* streamParser.ts:155 and 275-277, chat.service.ts:79-83: the pending
\* read() rejects because the request was aborted
ReadAborted(r) ==
  /\ Awaits(r, "read")
  /\ requests[r].aborted
  /\ Becomes(Outcome(sendChatRequestCatch(ChatState, r, AbortError),
                     Done(releaseLock(requests, r), r)))

\* streamParser.ts:155 and 275-277, chat.service.ts:79-88: the pending
\* read() rejects because the connection broke
ReadFails(r) ==
  /\ Awaits(r, "read")
  /\ ~requests[r].aborted
  /\ Becomes(Outcome(sendChatRequestCatch(ChatState, r, FetchFailed),
                     Done(releaseLock([requests EXCEPT
                                         ![r].trouble = "transport"], r), r)))

\* what the user does
UserActs ==
  \/ SendMessage
  \/ CancelRequest

\* what the requests in flight do
RequestActs ==
  \E r \in 1..MaxRequests :
       \/ FetchAborted(r)
       \/ FetchFails(r)
       \/ \E kind \in {"stream", "error", "nobody"} : FetchResolves(r, kind)
       \/ ErrorBodyRead(r)
       \/ ImportResolves(r)
       \/ \E chunk \in {"text", "tool"} : ReadResolves(r, chunk)
       \/ \E submit \in BOOLEAN : ReadDone(r, submit)
       \/ ReadAborted(r)
       \/ ReadFails(r)

NextChat ==
  \/ Render
  \/ UserActs
  \/ RequestActs

SpecChat == Init /\ [][NextChat]_allVars

(***************************************************************************)
(* Properties of cancellation.                                             *)
(***************************************************************************)
\* the request r takes a step
Steps(r) == r \in DOMAIN requests /\ requests'[r] # requests[r]

\* C22: once a request has been cancelled (its handle's abort() was called
\* by cancelRequest, sendMessage or sendToolResults), no step of that
\* request, and so none of its callbacks, changes the messages or the
\* streaming flags of the chat or hands tool calls to the tool execution.
C22_CancelledCallbacksInert ==
  [][\A r \in 1..MaxRequests :
       (Steps(r) /\ requests[r].aborted) =>
          UNCHANGED <<messages, isStreaming, streamingText,
                      streamingToolCalls, isExecutingTool, executions>>]_allVars

\* C23: cancellation is never reported as an error: whatever await of the
\* request (the fetch, the reading of an error body, the import, a read of
\* the stream) the abort falls on, no AbortError reaches options.onError,
\* and every error that does is one of a request whose server or
\* connection failed.
C23_CancelNotAnError ==
  \A i \in DOMAIN errors :
     /\ errors[i].name # AbortError.name
     /\ requests[errors[i].request].trouble # "none"

\* C23 witness: one request was aborted during its fetch and another
\* during a read of its stream, after a chunk had been handled; both have
\* ended and no error was reported
C23_Witness ==
  /\ \E r \in DOMAIN requests :
       requests[r].abortedAt = "fetch" /\ requests[r].pc = "done"
  /\ \E r \in DOMAIN requests :
       /\ requests[r].abortedAt = "read" /\ requests[r].pc = "done"
       /\ requests[r].reads > 0
  /\ errors = <<>>

(***************************************************************************)
(* handleToolCalls and the tool results (DashboardPage.tsx:27-93).  The    *)
(* updater handed to setTableData fills toolResults.  React calls an       *)
(* updater inside the setter when the component has no update pending,     *)
(* and otherwise when it renders next, which is after handleToolCalls has  *)
(* gone on past DashboardPage.tsx:68-74.                                   *)
(***************************************************************************)
\* one call of each outcome: success, unparsable arguments, an invalid
\* argument, an unknown tool, a delete that matches nothing and one that
\* matches
ResultCalls ==
  { Call("sortTable", [column |-> Str(<<"A","m","o","u","n","t">>), direction |-> Str(S_desc)]),
    [name |-> "filterTable", arguments |-> BadJson],
    Call("sortTable", [column |-> Str(S_name), direction |-> Str(<<"u","p">>)]),
    [name |-> "doStuff", arguments |-> Json(JsonObject(<<>>))],
    Call("deleteRow", [name |-> Str(<<"z">>)]),
    Call("deleteRow", [rowId |-> RowIdOf(1)]) }

\* the tool call of the reply that handleToolCalls is called for
RepliedCall ==
  [id |-> <<1, 1>>, type |-> "function",
   function |-> [name |-> "sortTable", arguments |-> S_emptyObject]]

\* useChat.ts:88-181, the chat when the reply to a first message has ended
\* with a tool call and onComplete calls options.onToolCalls
RepliedWithToolCalls ==
  /\ messages = <<NewMessage(1, "user", <<"g","o">>),
                  [NewMessage(2, "assistant", <<>>)
                     EXCEPT !.toolCalls = <<RepliedCall>>]>>
  /\ isStreaming = TRUE
  /\ streamingText = <<>>
  /\ streamingToolCalls = <<RepliedCall>>
  /\ isExecutingTool = TRUE
  /\ messagesRef = messages
  /\ abortControllerRef = 1
  /\ streamingAssistantMessageIdRef = 2
  /\ streamingTextRef = <<>>
  /\ streamingToolCallsRef = <<RepliedCall>>
  /\ requests = <<[NewRequest("sendMessage") EXCEPT
                     !.pc = "done", !.reads = 1,
                     !.toolCallsMap = <<RepliedCall>>]>>
  /\ errors = <<>>
  /\ executions = <<[request |-> 1, toolCalls |-> <<RepliedCall>>]>>
  /\ messageIds = 2
  /\ submitted = NotReached

InitResults == DashboardInit /\ RepliedWithToolCalls /\ ParserOff

\* DashboardPage.tsx:48-60, `result:` of a tool result
ResultText(toolResult) ==
  IF toolResult.errorText THEN <<"Error: ">> ELSE <<"o","k">>

\* DashboardPage.tsx:80-85, errorResults
ErrorResults(n) ==
  [i \in 1..n |-> [toolCallId |-> i, success |-> FALSE, errorText |-> TRUE]]

\* DashboardPage.tsx:68-93, handleToolCalls goes on after setTableData:
\* with the updater still queued (pc = "idle") toolResults is empty and
\* nothing is sent; after the updater has run it sends toolResults, or
\* the error results when the updater threw
GoOn ==
  /\ submitted = NotReached
  /\ pc \in {"idle", "published"}
  /\ LET found == IF pc = "idle" THEN <<>>
                  ELSE IF last.done /\ last.threw THEN ErrorResults(batchLen)
                  ELSE toolResults
         sent == [i \in DOMAIN found |->
                    [toolCallId |-> found[i].toolCallId,
                     result |-> ResultText(found[i]),
                     success |-> found[i].success]]
         out == sendToolResults(ChatState, requests, sent)
     IN /\ submitted' = [reached |-> TRUE, results |-> found]
        /\ IF Len(found) > 0
           THEN SetChat(out.chat) /\ requests' = out.requests
           ELSE UNCHANGED <<messages, isStreaming, streamingText,
                            streamingToolCalls, isExecutingTool, messagesRef,
                            abortControllerRef, streamingAssistantMessageIdRef,
                            streamingTextRef, streamingToolCallsRef, requests,
                            errors, executions, messageIds>>
  /\ UNCHANGED <<vars, parserVars>>

NextResults ==
  \/ \E n \in 1..MaxBatch : BeginBatch(n)
  \/ \E toolCall \in ResultCalls : ExecuteCall(toolCall)
  \/ RecordResult
  \/ EndBatch
  \/ Tick
  \/ GoOn

SpecResults == InitResults /\ [][NextResults]_allVars

\* handleToolCalls and the updater have both ended
BatchOver == pc = "published" /\ submitted # NotReached

\* the messages from the k-th on
MessagesFrom(k) == SubSeq(messages, k, Len(messages))

\* C24: when a batch is over, every call has exactly one tool result, in
\* call order and with the call's id, a failed call's result has
\* success = false and an error text, and these results have been
\* submitted to the conversation: they are the last tool messages of the
\* chat, followed by the assistant message of the request that carries
\* them to the model.
C24_ResultsSubmitted ==
  BatchOver =>
    /\ Len(toolResults) = batchLen
    /\ \A i \in DOMAIN toolResults :
         /\ toolResults[i].toolCallId = i
         /\ ~toolResults[i].success => toolResults[i].errorText
    /\ submitted.results = toolResults
    /\ Len(messages) > batchLen
    /\ LET tail == MessagesFrom(Len(messages) - batchLen)
       IN /\ \A i \in 1..batchLen :
               /\ tail[i].role = "tool"
               /\ tail[i].toolCallId = i
               /\ tail[i].content = ResultText(toolResults[i])
          /\ tail[batchLen + 1].role = "assistant"
    /\ Len(requests) = 2
    /\ requests[2].from = "sendToolResults"

(***************************************************************************)
(* The table DataTable shows: every column filters with customFilterFn.    *)
(***************************************************************************)
S_gt == <<">">>
S_eq == <<"=","=">>
S_ne == <<"!","=">>
S_contains == <<"c","o","n","t","a","i","n","s">>
S_startsWith == <<"s","t","a","r","t","s","W","i","t","h">>
S_endsWith == <<"e","n","d","s","W","i","t","h">>

\* String.prototype.endsWith
endsWith(s, suffix) ==
  Len(s) >= Len(suffix) /\ SubSeq(s, Len(s) - Len(suffix) + 1, Len(s)) = suffix

\* FAULTY VARIANT: NaN is compared as if it were 0
NumberCompareNaNZero(operator, a, b) ==
  CASE operator = Str(S_gt) -> a.v > b.v
    [] operator = Str(S_lt) -> a.v < b.v
    [] operator = Str(S_ge) -> a.v >= b.v
    [] operator = Str(S_le) -> a.v <= b.v

\* toolExecutor.ts:443-450, `a > b`, `a < b`, `a >= b`, `a <= b` on two
\* numbers: false when either is NaN
NumberCompare(operator, a, b) ==
  /\ ~a.nan
  /\ ~b.nan
  /\ CASE operator = Str(S_gt) -> a.v > b.v
       [] operator = Str(S_lt) -> a.v < b.v
       [] operator = Str(S_ge) -> a.v >= b.v
       [] operator = Str(S_le) -> a.v <= b.v

\* `a === b` on two numbers: NaN equals nothing
NumberEquals(a, b) == ~a.nan /\ ~b.nan /\ a.v = b.v

\* toolExecutor.ts:360-362
isNumericValue(value) ==
  value.t = "number" \/ (~Number(value).nan /\ trim(String(value)) # <<>>)

\* toolExecutor.ts:364-368
compareStrings(a, b, operator) ==
  LET aLower == toLowerCase(a)
      bLower == toLowerCase(b)
  IN IF operator = Str(S_eq) THEN aLower = bLower ELSE aLower # bLower

\* toolExecutor.ts:376-380
isDateValue(value) == IsString(value) /\ DateRegexTest(value.v)

\* toolExecutor.ts:382-406
compareDates(date1, date2, operator) ==
  LET d1 == NewDate(date1)
      d2 == NewDate(date2)
  IN IF ~d1.valid \/ ~d2.valid
     THEN FALSE
     ELSE CASE operator = Str(S_gt) -> d1.time > d2.time
            [] operator = Str(S_lt) -> d1.time < d2.time
            [] operator = Str(S_ge) -> d1.time >= d2.time
            [] operator = Str(S_le) -> d1.time <= d2.time
            [] operator = Str(S_eq) -> d1.time = d2.time
            [] operator = Str(S_ne) -> d1.time # d2.time
            [] OTHER -> FALSE

\* row.getValue(columnId) for a column DataTable defines
getValue(row, columnId) ==
  CASE columnId = S_name -> Str(row.name)
    [] columnId = S_amount -> row.amount
    [] columnId = S_status -> Str(row.status)
    [] columnId = S_date -> Str(row.date)
    [] columnId = S_category -> Str(row.category)

\* toolExecutor.ts:408-470
customFilterFn(row, columnId, filterValue) ==
  LET operator == FilterProp(filterValue, "operator")
      value == FilterProp(filterValue, "value")
      minValue == FilterProp(filterValue, "minValue")
      maxValue == FilterProp(filterValue, "maxValue")
      cellValue == getValue(row, columnId)
      isDateColumn == columnId = S_date
      isDateComparison == isDateColumn /\ isDateValue(value)
      isCellNumeric == cellValue.t = "number"
      isBothNumeric ==
        isCellNumeric \/ (isNumericValue(cellValue) /\ isNumericValue(value))
  IN IF ~Truthy(operator) \/ value = Undefined
     THEN TRUE
     ELSE IF /\ operator = Str(S_range)
             /\ minValue # Undefined
             /\ maxValue # Undefined
             /\ isDateColumn
     THEN LET cellDate == NewDate(String(cellValue))
              minDate == NewDate(String(minValue))
              maxDate == NewDate(String(maxValue))
          IN IF ~cellDate.valid \/ ~minDate.valid \/ ~maxDate.valid
             THEN FALSE
             ELSE cellDate.time >= minDate.time /\ cellDate.time <= maxDate.time
     ELSE IF isDateComparison
     THEN compareDates(String(cellValue), String(value), operator)
     ELSE CASE operator \in {Str(S_gt), Str(S_lt), Str(S_ge), Str(S_le)} ->
                 NumberCompare(operator, Number(cellValue), Number(value))
            [] operator \in {Str(S_eq), Str(S_ne)} ->
                 IF isBothNumeric
                 THEN IF operator = Str(S_eq)
                      THEN NumberEquals(Number(cellValue), Number(value))
                      ELSE ~NumberEquals(Number(cellValue), Number(value))
                 ELSE compareStrings(String(cellValue), String(value), operator)
            [] operator = Str(S_contains) ->
                 includes(toLowerCase(String(cellValue)), toLowerCase(String(value)))
            [] operator = Str(S_startsWith) ->
                 startsWith(toLowerCase(String(cellValue)), toLowerCase(String(value)))
            [] operator = Str(S_endsWith) ->
                 endsWith(toLowerCase(String(cellValue)), toLowerCase(String(value)))
            [] OTHER -> TRUE

\* the columns DataTable defines, DataTable.tsx:63-97
TableColumns == {S_name, S_amount, S_status, S_date, S_category}

\* getFilteredRowModel: the rows every column filter lets through; a filter
\* on a column the table does not define is skipped
getFilteredRowModel(data, filters) ==
  SelectSeq(data, LAMBDA row :
    \A i \in 1..Len(filters) :
      filters[i].id \in TableColumns
        => customFilterFn(row, filters[i].id, filters[i].value))

\* DataTable renders the state handleToolCalls has published,
\* DataTable.tsx:100-123 and 175
RenderTable ==
  /\ pc = "published"
  /\ ~visible.reached
  /\ visible' = [reached |-> TRUE,
                 rows |-> getFilteredRowModel(tableData, columnFilters)]
  /\ UNCHANGED <<tableData, sorting, columnFilters, clock, pc, batchLen,
                 startState, currentState, toolResults, last, prevAdd>>
  /\ UNCHANGED <<parserVars, chatVars, turnVars>>

D_mar == <<"2","0","2","4","-","0","3","-","1","0">>
D_unpadded == <<"2","0","2","4","-","2","-","1">>
V_10 == <<"1","0">>

\* a row addRow has appended: an amount of 0 is a number like any other
AddedRow ==
  [id |-> S_rowPrefix \o NatToString(ClockStart), name |-> V_10,
   amount |-> Num(0), status |-> S_pending, date |-> D_mar,
   category |-> <<"y">>]

\* the tables the filters are tried on: the sample rows, and the sample
\* rows with a row added
ProbeTables ==
  { generateSampleData(SampleCount),
    Append(generateSampleData(SampleCount), AddedRow) }

FilterCall(column, operator, value) ==
  Call("filterTable", [column |-> Str(column), operator |-> Str(operator),
                       value |-> Str(value)])

\* filterTable calls with every operator of customFilterFn
ProbeCalls ==
  { FilterCall(<<"A","m","o","u","n","t">>, S_gt, V_10) }
  \cup { FilterCall(S_amount, op, v) :
           op \in {S_gt, S_lt, S_ge, S_le}, v \in {<<"5">>, <<"a">>} }
  \cup { FilterCall(S_amount, op, v) :
           op \in {S_eq, S_ne}, v \in {<<>>, <<"5">>, <<"a">>} }
  \cup { FilterCall(S_amount, op, <<"0">>) :
           op \in {S_contains, S_startsWith, S_endsWith} }
  \cup { FilterCall(S_name, op, <<"A">>) :
           op \in {S_gt, S_eq, S_ne, S_contains, S_startsWith, S_endsWith} }
  \cup { FilterCall(S_date, op, D_feb) :
           op \in {S_gt, S_lt, S_ge, S_le, S_eq, S_ne,
                   S_contains, S_startsWith, S_endsWith} }
  \cup { FilterCall(S_date, op, D_jan) : op \in {S_ge, S_le} }
  \cup { FilterCall(S_date, op, D_unpadded) : op \in {S_gt, S_lt} }
  \cup { FilterCall(S_date, S_contains, <<"2","0","2","4">>) }

\* how many filterTable calls a batch of the table specification holds
MaxFilterCalls == 2

InitTable ==
  /\ tableData \in ProbeTables
  /\ sorting = <<>>
  /\ columnFilters = <<>>
  /\ clock = ClockStart
  /\ pc = "idle"
  /\ batchLen = 0
  /\ startState = NoState
  /\ currentState = NoState
  /\ toolResults = <<>>
  /\ last = NoCall
  /\ prevAdd = NoAdd
  /\ visible = NotReached
  /\ FirstRender
  /\ ChatMounted
  /\ ParserOff

\* handleToolCalls on a batch of filterTable calls, and the render after it
NextTable ==
  \/ \E n \in 1..MaxFilterCalls : BeginBatch(n)
  \/ \E toolCall \in ProbeCalls : ExecuteCall(toolCall)
  \/ RecordResult
  \/ EndBatch
  \/ RenderTable

SpecTable == InitTable /\ [][NextTable]_allVars

\* DataTable has rendered a table with exactly one column filter
OneFilter == visible.reached /\ Len(columnFilters) = 1

\* the rows of the table that satisfy P, in the order of the table
RowsWhere(P(_)) == SelectSeq(tableData, P)

\* Number.isNaN
IsNaN(x) == x.nan

OrderingOperators == {Str(S_gt), Str(S_lt), Str(S_ge), Str(S_le)}

\* both sides coerced to numbers and ordered as numbers, NaN on either side
\* satisfying nothing
NumericallyOrdered(operator, cell, value) ==
  LET a == Number(cell)
      b == Number(value)
  IN /\ ~IsNaN(a)
     /\ ~IsNaN(b)
     /\ operator = Str(S_gt) => a.v > b.v
     /\ operator = Str(S_lt) => a.v < b.v
     /\ operator = Str(S_ge) => a.v >= b.v
     /\ operator = Str(S_le) => a.v <= b.v

\* the rows an ordering filter shows when it compares numbers
ShownByNumbers(filter) ==
  RowsWhere(LAMBDA row :
    NumericallyOrdered(filter.value.operator, getValue(row, filter.id),
                       filter.value.value))

\* filterTable(column="Amount", operator=">", value="10") has been applied
AmountAboveTen ==
  /\ OneFilter
  /\ columnFilters[1] =
       [id |-> S_amount, value |-> [operator |-> Str(S_gt), value |-> Str(V_10)]]

\* C25 as stated: with >, <, >= or <= as the only filter, on any column and
\* with any filter value, the rows shown are those whose cell value,
\* coerced to a number, stands in that order to the filter value coerced to
\* a number; a NaN on either side shows nothing.
C25_NumericOperators ==
  (OneFilter /\ columnFilters[1].value.operator \in OrderingOperators)
    => visible.rows = ShownByNumbers(columnFilters[1])

\* C25: with >, <, >= or <= as the only filter, the rows shown are those
\* whose cell value, coerced to a number, stands in that order to the
\* filter value coerced to a number, a NaN on either side showing nothing,
\* unless the column is the date column and the filter value has the form
\* YYYY-MM-DD; and Amount > "10" shows exactly the rows with amount 20 of a
\* table whose other amounts are 0 and 5.
C25_NumericOperatorsOffDates ==
  /\ ( /\ OneFilter
       /\ columnFilters[1].value.operator \in OrderingOperators
       /\ ~(columnFilters[1].id = S_date /\ isDateValue(columnFilters[1].value.value)) )
       => visible.rows = ShownByNumbers(columnFilters[1])
  /\ AmountAboveTen
       => visible.rows = RowsWhere(LAMBDA row : row.amount = Num(20))

\* the example of the claim: of the sample rows with amounts 5 and 20 only
\* the second is shown
C25_Witness ==
  /\ AmountAboveTen
  /\ tableData = generateSampleData(SampleCount)
  /\ Len(tableData) >= 2
  /\ tableData[1].amount = Num(5)
  /\ visible.rows # <<>>
  /\ \A i \in 1..Len(visible.rows) : visible.rows[i].amount = Num(20)

EqualityOperators == {Str(S_eq), Str(S_ne)}

\* == and != as the contract words them: numbers are compared when both
\* sides look numeric, the lowercased string forms in every other case
EqualAsContracted(operator, cell, value) ==
  LET same == IF isNumericValue(cell) /\ isNumericValue(value)
              THEN LET a == Number(cell)
                       b == Number(value)
                   IN ~IsNaN(a) /\ ~IsNaN(b) /\ a.v = b.v
              ELSE toLowerCase(String(cell)) = toLowerCase(String(value))
  IN IF operator = Str(S_eq) THEN same ELSE ~same

\* C26: with == or != as the only filter, the rows shown are those whose
\* cell value equals (or differs from) the filter value as numbers when
\* both look numeric, and as lowercased strings in every other case, a
\* numeric cell against an empty or non-numeric filter value included.
C26_EqualityBranch ==
  (OneFilter /\ columnFilters[1].value.operator \in EqualityOperators)
    => visible.rows =
         RowsWhere(LAMBDA row :
           EqualAsContracted(columnFilters[1].value.operator,
                             getValue(row, columnFilters[1].id),
                             columnFilters[1].value.value))

TextOperators == {Str(S_contains), Str(S_startsWith), Str(S_endsWith)}

\* the substring, prefix or suffix test on the lowercased string forms
TextTest(operator, cell, value) ==
  LET c == toLowerCase(String(cell))
      v == toLowerCase(String(value))
  IN CASE operator = Str(S_contains) ->
            \E i \in 0..(Len(c) - Len(v)) : SubSeq(c, i + 1, i + Len(v)) = v
       [] operator = Str(S_startsWith) ->
            Len(v) <= Len(c) /\ SubSeq(c, 1, Len(v)) = v
       [] operator = Str(S_endsWith) ->
            Len(v) <= Len(c) /\ SubSeq(c, Len(c) - Len(v) + 1, Len(c)) = v

\* C27: with contains, startsWith or endsWith as the only filter, on any
\* column (the date column included) and with any filter value, the rows
\* shown are those whose lowercased string form contains, starts with or
\* ends with the lowercased string form of the filter value.
C27_TextOperators ==
  (OneFilter /\ columnFilters[1].value.operator \in TextOperators)
    => visible.rows =
         RowsWhere(LAMBDA row :
           TextTest(columnFilters[1].value.operator,
                    getValue(row, columnFilters[1].id),
                    columnFilters[1].value.value))

NoDate == [valid |-> FALSE, day |-> 0]

\* a calendar date written year-month-day, the month and the day with one
\* or two digits, numbered by its day
CalendarDate(s) ==
  LET dashes == {i \in 1..Len(s) : s[i] = "-"}
  IN IF Cardinality(dashes) # 2
     THEN NoDate
     ELSE LET i == CHOOSE k \in dashes : \A l \in dashes : k <= l
              j == CHOOSE k \in dashes : \A l \in dashes : k >= l
              y == SubSeq(s, 1, i - 1)
              m == SubSeq(s, i + 1, j - 1)
              d == SubSeq(s, j + 1, Len(s))
          IN IF /\ Len(y) = 4 /\ AllDigits(y)
                /\ Len(m) \in 1..2 /\ AllDigits(m) /\ DigitsToNat(m) \in 1..12
                /\ Len(d) \in 1..2 /\ AllDigits(d) /\ DigitsToNat(d) \in 1..31
             THEN [valid |-> TRUE,
                   day |-> (DigitsToNat(y) * 12 + (DigitsToNat(m) - 1)) * 31
                             + (DigitsToNat(d) - 1)]
             ELSE NoDate

\* the order of the calendar, nothing being ordered against what is no date
CalendarOrdered(operator, cell, value) ==
  LET a == CalendarDate(String(cell))
      b == CalendarDate(String(value))
  IN /\ a.valid
     /\ b.valid
     /\ operator = Str(S_gt) => a.day > b.day
     /\ operator = Str(S_lt) => a.day < b.day
     /\ operator = Str(S_ge) => a.day >= b.day
     /\ operator = Str(S_le) => a.day <= b.day

\* C28: with >, <, >= or <= as the only filter and the date column as its
\* column, the rows shown are those whose date stands in that order of the
\* calendar to the filter value, whether the value is zero-padded
\* ("2024-02-01") or not ("2024-2-1"); a side that is no date shows nothing.
C28_CalendarComparison ==
  ( /\ OneFilter
    /\ columnFilters[1].id = S_date
    /\ columnFilters[1].value.operator \in OrderingOperators )
    => visible.rows =
         RowsWhere(LAMBDA row :
           CalendarOrdered(columnFilters[1].value.operator,
                           getValue(row, S_date),
                           columnFilters[1].value.value))

\* the filter of the date column in a filter list, undefined when none
DateFilter(filters) == FindFilter(filters, S_date)

\* a plain filter of the date column: operator and value and nothing else
PlainDateFilter(fv, operator) ==
  /\ fv # Undefined
  /\ DOMAIN fv = {"operator", "value"}
  /\ fv.operator = Str(operator)

\* filterTable on the date column with the bound that completes the plain
\* >= or <= filter the column has: min and max are the two bounds
CompletesBounds ==
  /\ CalledTool("filterTable")
  /\ last.result.success
  /\ LastArg("column") = Str(S_date)
  /\ \/ /\ PlainDateFilter(DateFilter(last.inState.columnFilters), S_ge)
        /\ LastArg("operator") = Str(S_le)
     \/ /\ PlainDateFilter(DateFilter(last.inState.columnFilters), S_le)
        /\ LastArg("operator") = Str(S_ge)

BoundsMin ==
  IF LastArg("operator") = Str(S_le)
  THEN DateFilter(last.inState.columnFilters).value
  ELSE LastArg("value")

BoundsMax ==
  IF LastArg("operator") = Str(S_le)
  THEN LastArg("value")
  ELSE DateFilter(last.inState.columnFilters).value

\* min <= max in the order of the calendar
BoundsInOrder ==
  CalendarDate(String(BoundsMin)).day <= CalendarDate(String(BoundsMax)).day

\* the date column of the rendered table has a range filter
RangeShown ==
  /\ visible.reached
  /\ DateFilter(columnFilters) # Undefined
  /\ DateFilter(columnFilters).operator = Str(S_range)

\* the row's date lies between the two bounds, both included
WithinBounds(row, fv) ==
  /\ CalendarDate(String(fv.minValue)).day <= CalendarDate(row.date).day
  /\ CalendarDate(row.date).day <= CalendarDate(String(fv.maxValue)).day

C30_SingleSort ==
  /\ (CalledTool("sortTable") /\ last.result.success) =>
       /\ LastArg("direction") \in {Str(S_asc), Str(S_desc)}
       /\ last.outState.sorting =
            <<[id |-> NormalizedArg(LastArg("column")),
               desc |-> LastArg("direction") = Str(S_desc)]>>
  /\ Len(sorting) <= 1
  /\ currentState # NoState => Len(currentState.sorting) <= 1
  /\ Called => Len(last.outState.sorting) <= 1

\* a sortTable call has succeeded on a table that was sorted by another
\* column
C30_Witness ==
  /\ CalledTool("sortTable")
  /\ last.result.success
  /\ Len(last.inState.sorting) = 1
  /\ last.inState.sorting[1].id # NormalizedArg(LastArg("column"))
  /\ Len(last.outState.sorting) = 1

(***************************************************************************)
(* A conversation turn: the batches of tool calls that follow one another, *)
(* each handled by the handleToolCalls its request closed over.            *)
(***************************************************************************)
\* how many batches the turns of a run hold together
MaxBatches == 2

\* how many tool calls a batch of a turn holds
MaxTurnCalls == 1

TurnCalls ==
  { FilterCall(S_name, S_contains, <<"a">>),
    FilterCall(S_amount, S_gt, V_10),
    Call("sortTable", [column |-> Str(S_amount), direction |-> Str(S_desc)]),
    Call("sortTable", [column |-> Str(S_name), direction |-> Str(<<"u","p">>)]),
    [name |-> "clearSorting", arguments |-> Json(JsonObject(<<>>))] }

\* what a render of DashboardPage gives handleToolCalls to close over,
\* DashboardPage.tsx:27-94 (useCallback with [sorting, columnFilters])
ClosureOf(s, f) == [sorting |-> s, columnFilters |-> f]

\* the last committed render has seen the state of the table
Committed == rendered = ClosureOf(sorting, columnFilters)

\* DashboardPage.tsx:12-94 and ChatInterface.tsx:37-42: a state change is
\* rendered; handleToolCalls is made anew, and with it the sendMessage and
\* sendToolResults of useChat (useChat.ts:193 and 320), the latter stored in
\* sendToolResultsRef by the effect
RenderDashboard ==
  /\ pc = "idle"
  /\ ~Committed
  /\ rendered' = ClosureOf(sorting, columnFilters)
  /\ UNCHANGED <<tableData, sorting, columnFilters, clock, pc, batchLen,
                 startState, currentState, toolResults, last, prevAdd,
                 visible, held, batches>>
  /\ UNCHANGED <<parserVars, chatVars>>

\* useChat.ts:87-193, the user sends a message with the sendMessage of the
\* last render: the callbacks of the request hold its onToolCalls
SendTurn ==
  /\ pc = "idle"
  /\ Committed
  /\ held = NoState
  /\ batches < MaxBatches
  /\ held' = rendered
  /\ UNCHANGED <<tableData, sorting, columnFilters, clock, pc, batchLen,
                 startState, currentState, toolResults, last, prevAdd,
                 visible, rendered, batches>>
  /\ UNCHANGED <<parserVars, chatVars>>

\* DataTable.tsx:108-111 and 143, the user clicks the header of the name
\* column of an unsorted table
ToggleSorting ==
  /\ pc = "idle"
  /\ Committed
  /\ sorting = <<>>
  /\ sorting' = <<[id |-> S_name, desc |-> FALSE]>>
  /\ UNCHANGED <<tableData, columnFilters, clock, pc, batchLen, startState,
                 currentState, toolResults, last, prevAdd, visible,
                 rendered, held, batches>>
  /\ UNCHANGED <<parserVars, chatVars>>

\* useChat.ts:157-180 and 279-303 with DashboardPage.tsx:27-43: the reply
\* ends with n tool calls and onComplete calls the onToolCalls its request
\* holds; the updater builds currentState from the rows of the table and
\* from the sorting and columnFilters of that closure
HandleToolCalls(n) ==
  /\ pc = "idle"
  /\ held # NoState
  /\ pc' = "running"
  /\ batchLen' = n
  /\ startState' = [data |-> tableData, sorting |-> held.sorting,
                    columnFilters |-> held.columnFilters,
                    pagination |-> [pageIndex |-> 0, pageSize |-> 10]]
  /\ currentState' = startState'
  /\ toolResults' = <<>>
  /\ last' = NoCall
  /\ prevAdd' = NoAdd
  /\ held' = NoState
  /\ batches' = batches + 1
  /\ UNCHANGED <<tableData, sorting, columnFilters, clock, visible, rendered>>
  /\ UNCHANGED <<parserVars, chatVars>>

\* DashboardPage.tsx:72-74 and useChat.ts:202-320: the updater has run
\* inside the setter, and handleToolCalls sends the results with the
\* sendToolResults of sendToolResultsRef, that of the last render; the
\* callbacks of the follow-up request hold its onToolCalls
SubmitResults ==
  /\ pc = "published"
  /\ batches < MaxBatches
  /\ pc' = "idle"
  /\ held' = rendered
  /\ UNCHANGED <<tableData, sorting, columnFilters, clock, batchLen,
                 startState, currentState, toolResults, last, prevAdd,
                 visible, rendered, batches>>
  /\ UNCHANGED <<parserVars, chatVars>>

\* DashboardPage.tsx:72-74 and 91-93: handleToolCalls has found no result
\* to send (the updater ran after it looked), or the follow-up reply has no
\* tool call: the turn is over
TurnEnds ==
  /\ pc = "published"
  /\ pc' = "idle"
  /\ UNCHANGED <<tableData, sorting, columnFilters, clock, batchLen,
                 startState, currentState, toolResults, last, prevAdd,
                 visible, rendered, held, batches>>
  /\ UNCHANGED <<parserVars, chatVars>>

NextTurn ==
  \/ RenderDashboard
  \/ SendTurn
  \/ ToggleSorting
  \/ \E n \in 1..MaxTurnCalls : HandleToolCalls(n)
  \/ \E toolCall \in TurnCalls : ExecuteCall(toolCall)
  \/ RecordResult
  \/ EndBatch
  \/ SubmitResults
  \/ TurnEnds

SpecTurn == Init /\ [][NextTurn]_allVars

\* a batch is being executed
BatchRuns == pc \in {"running", "called"}

\* C31: the rows, the sort spec and the filter specs a batch starts from
\* are those of the table at the time: what the batch applied before it
\* has left, in the same turn or in an earlier one, and never an older
\* snapshot.
C31_BatchFromCurrentState ==
  BatchRuns =>
    /\ startState.data = tableData
    /\ startState.sorting = sorting
    /\ startState.columnFilters = columnFilters

(***************************************************************************)
(* Tool calls in any encoding: block starts with the ids, names and        *)
(* indexes a provider may use, argument deltas with or without index, and  *)
(* whole-message events, in any order.                                     *)
(***************************************************************************)
\* how many events the response holds
MaxEvents == 4

T_1 == <<"t","1">>
T_2 == <<"t","2">>
T_3 == <<"t","3">>
N_sort == <<"sortTable">>
N_clear == <<"clearFilters">>

BlockEvent(kind, id, name, index, json) ==
  [kind |-> kind, id |-> id, name |-> name, index |-> index, json |-> json]

\* content_block_start events of tool-use blocks: two ids, the first one
\* under two names, with and without index, and a block without name
StartEvents ==
  { BlockEvent("start", T_1, N_sort, Undefined, <<>>),
    BlockEvent("start", T_1, N_clear, Undefined, <<>>),
    BlockEvent("start", T_2, N_sort, Undefined, <<>>),
    BlockEvent("start", T_1, N_sort, Num(0), <<>>),
    BlockEvent("start", T_2, N_clear, Num(1), <<>>),
    BlockEvent("start", T_2, <<>>, Undefined, <<>>) }

\* input_json_delta events: fragments that are no JSON by themselves, and
\* an empty fragment
DeltaEvents ==
  { BlockEvent("delta", <<>>, <<>>, Undefined, <<"{">>),
    BlockEvent("delta", <<>>, <<>>, Undefined, <<"x">>),
    BlockEvent("delta", <<>>, <<>>, Undefined, <<>>),
    BlockEvent("delta", <<>>, <<>>, Num(0), <<"{">>),
    BlockEvent("delta", <<>>, <<>>, Num(1), <<"x">>) }

\* message and message_start events whose content is one tool-use block
\* with the input {"a":1}
WholeEvents ==
  { BlockEvent("message", T_3, N_sort, Num(0), A_json),
    BlockEvent("message_start", T_1, N_clear, Num(0), A_json) }

\* an array value
Array(elements) == [t |-> "object", printable |-> TRUE, a |-> elements]

\* the event object JSON.parse gives for an event
EventObject(e) ==
  CASE e.kind = "start" ->
         Object([type |-> Str(<<"content_block_start">>),
                 index |-> e.index,
                 content_block |-> Object([type |-> Str(<<"tool_use">>),
                                           id |-> Str(e.id),
                                           name |-> Str(e.name)])])
    [] e.kind = "delta" ->
         Object([type |-> Str(<<"content_block_delta">>),
                 index |-> e.index,
                 delta |-> Object([type |-> Str(<<"input_json_delta">>),
                                   partial_json |-> Str(e.json)])])
    [] e.kind = "message" ->
         Object([type |-> Str(<<"message">>),
                 content |-> Array(<<Object([type |-> Str(<<"tool_use">>),
                                             id |-> Str(e.id),
                                             name |-> Str(e.name),
                                             input |-> Object([json |-> e.json])])>>)])
    [] e.kind = "message_start" ->
         Object([type |-> Str(<<"message_start">>),
                 message |-> Object([content |->
                   Array(<<Object([type |-> Str(<<"tool_use">>),
                                   id |-> Str(e.id),
                                   name |-> Str(e.name),
                                   input |-> Object([json |-> e.json])])>>)])])

InitEvents ==
  /\ DashboardInit
  /\ ChatMounted
  /\ ParserStarted([kind |-> "events"], <<>>)

\* streamParser.ts:162-273, a line holding the event e has been read and
\* handled
FeedEvent(e) ==
  /\ ppc = "reading"
  /\ source.kind = "events"
  /\ Len(fed) < MaxEvents
  /\ SetParser(HandleEvent(ParserState, EventObject(e)))
  /\ fed' = Append(fed, e)
  /\ UNCHANGED <<source, split, decoder, buffer, ppc, parsed>>
  /\ UNCHANGED <<vars, chatVars>>

\* the events a response is made of
StreamEvents == StartEvents \cup DeltaEvents \cup WholeEvents

\* streamParser.ts:155-156 and 275-306, the body ends and the result is
\* returned
EndOfEvents ==
  /\ ppc = "reading"
  /\ source.kind = "events"
  /\ parsed' = Finalize(ParserState)
  /\ ppc' = "returned"
  /\ UNCHANGED <<source, fed, split, decoder, buffer, accumulatedText,
                 accumulatedThinking, isInThinking, tagBuffer, toolCallsMap,
                 toolCallsByIndex, accumulators>>
  /\ UNCHANGED <<vars, chatVars>>

NextEvents ==
  \/ \E e \in StreamEvents : FeedEvent(e)
  \/ EndOfEvents

SpecEvents == InitEvents /\ [][NextEvents]_allVars

\* the event makes a tool call: a block start, or the block of a whole
\* message, with an id and a name
MakesCall(e) == e.kind # "delta" /\ e.id # <<>> /\ e.name # <<>>

\* event i of the stream is the start of a tool-use block
IsStart(h, i) == h[i].kind = "start" /\ MakesCall(h[i])

\* the accumulator the call made by event i has: accumulators are made in
\* the order of the events that make a call
AccumulatorOf(h, i) == Cardinality({j \in 1..i : MakesCall(h[j])})

\* the last of the events 1..n that satisfies P, 0 when there is none
LastWhere(n, P(_)) ==
  IF \E i \in 1..n : P(i)
  THEN CHOOSE i \in 1..n : P(i) /\ \A j \in (i + 1)..n : ~P(j)
  ELSE 0

\* the tool-use block started last among the events of h
LastStarted(h) == LastWhere(Len(h), LAMBDA i : IsStart(h, i))

\* the step handles a delta without index that carries a fragment, after a
\* block has been started
DeltaWithoutIndex ==
  /\ ppc = "reading"
  /\ source.kind = "events"
  /\ Len(fed') = Len(fed) + 1
  /\ fed'[Len(fed')].kind = "delta"
  /\ fed'[Len(fed')].index = Undefined
  /\ fed'[Len(fed')].json # <<>>
  /\ LastStarted(fed) # 0

\* C32: a delta that carries no index is appended to the arguments of the
\* tool-use block started last, whatever ids and indexes the blocks started
\* before it have, and to no other.
C32_DeltaToLastStarted ==
  [][DeltaWithoutIndex =>
       accumulators' =
         [accumulators EXCEPT ![AccumulatorOf(fed, LastStarted(fed))].arguments =
                                 @ \o fed'[Len(fed')].json]]_allVars

EventsReturned == ppc = "returned" /\ source.kind = "events"

\* the fragments of the deltas that follow event i, in arrival order
RECURSIVE FragmentsAfter(_, _)
FragmentsAfter(h, i) ==
  IF i >= Len(h) THEN <<>>
  ELSE (IF h[i + 1].kind = "delta" THEN h[i + 1].json ELSE <<>>)
         \o FragmentsAfter(h, i + 1)

\* the calls of the final list that have the id
ListedAs(id) == SelectSeq(parsed.toolCalls, LAMBDA tc : tc.id = id)

\* the last event that makes a call with the id of event i
LastMaking(h, i) ==
  LastWhere(Len(h), LAMBDA j : MakesCall(h[j]) /\ h[j].id = h[i].id)

\* C33: every tool-use block started with an id and a name has a call of
\* its id in the final list; a block that no fragment followed is listed
\* with the arguments "{}", and a block that is the only one of its stream
\* is listed with the fragments that followed it, concatenated as they
\* came, whether or not they make up valid JSON.
C33_NeverRejects ==
  EventsReturned =>
    \A i \in 1..Len(fed) :
      IsStart(fed, i) =>
        /\ ListedAs(fed[i].id) # <<>>
        /\ (LastMaking(fed, i) = i /\ FragmentsAfter(fed, i) = <<>>)
             => ListedAs(fed[i].id)[1].function.arguments = S_emptyObject
        /\ ( /\ \A j \in 1..Len(fed) : MakesCall(fed[j]) => j = i
             /\ FragmentsAfter(fed, i) # <<>> )
             => parsed.toolCalls =
                  <<[id |-> fed[i].id, type |-> "function",
                     function |-> [name |-> fed[i].name,
                                   arguments |-> FragmentsAfter(fed, i)]]>>

\* a block was followed by the fragments "{" and "x" and is listed with the
\* arguments "{x", which are no JSON
C33_Witness ==
  /\ EventsReturned
  /\ Len(fed) >= 3
  /\ IsStart(fed, 1)
  /\ \A j \in 2..Len(fed) : fed[j].kind = "delta"
  /\ FragmentsAfter(fed, 1) = <<"{","x">>
  /\ Len(parsed.toolCalls) = 1
  /\ parsed.toolCalls[1].function.arguments = <<"{","x">>

\* a stream of block starts and deltas that all go without index
PlainStream(h) ==
  \A j \in 1..Len(h) : h[j].kind \in {"start", "delta"} /\ h[j].index = Undefined

\* a stream of block starts and deltas that all carry an index, every delta
\* the index of a block started before it
IndexedStream(h) ==
  \A j \in 1..Len(h) :
    /\ h[j].kind \in {"start", "delta"}
    /\ h[j].index # Undefined
    /\ h[j].kind = "delta" =>
         \E i \in 1..(j - 1) : IsStart(h, i) /\ h[i].index = h[j].index

\* the block the delta j of such a stream is delivered for: the block
\* started last before it, with its index when it carries one
DeliveredTo(h, j) ==
  LastWhere(j - 1, LAMBDA i : IsStart(h, i) /\ h[i].index = h[j].index)

\* the fragments delivered for the block started by event i, in arrival
\* order
RECURSIVE DeliveredFrom(_, _, _)
DeliveredFrom(h, i, j) ==
  IF j > Len(h) THEN <<>>
  ELSE (IF h[j].kind = "delta" /\ DeliveredTo(h, j) = i THEN h[j].json ELSE <<>>)
         \o DeliveredFrom(h, i, j + 1)

\* the ids of the final list are distinct
OneCallPerId ==
  \A a, b \in DOMAIN parsed.toolCalls :
    parsed.toolCalls[a].id = parsed.toolCalls[b].id => a = b

\* event i starts again an id that an earlier event has started, and no
\* later event starts the id once more
StartsAgain(h, i) ==
  /\ IsStart(h, i)
  /\ LastMaking(h, i) = i
  /\ \E j \in 1..(i - 1) : IsStart(h, j) /\ h[j].id = h[i].id

\* C34: the final list has at most one call per id; when an id is started
\* again in a stream, the call listed for it has the name of the later
\* start and, for arguments, exactly the fragments delivered for the block
\* after that start ("{}" when there are none).
C34_LaterStartWins ==
  EventsReturned =>
    /\ OneCallPerId
    /\ \A i \in 1..Len(fed) :
         (StartsAgain(fed, i) /\ (PlainStream(fed) \/ IndexedStream(fed))) =>
           /\ Len(ListedAs(fed[i].id)) = 1
           /\ ListedAs(fed[i].id)[1].function.name = fed[i].name
           /\ ListedAs(fed[i].id)[1].function.arguments =
                (IF DeliveredFrom(fed, i, i + 1) = <<>> THEN S_emptyObject
                 ELSE DeliveredFrom(fed, i, i + 1))

\* event i is a message or message_start event with a tool-use block, and
\* no later event makes a call with its id
WholeCall(h, i) ==
  /\ h[i].kind \in {"message", "message_start"}
  /\ MakesCall(h[i])
  /\ LastMaking(h, i) = i

\* the stream holds incremental block events as well
Mixed(h) == \E j \in 1..Len(h) : h[j].kind \in {"start", "delta"}

\* C35: a tool-use block delivered complete in a message or message_start
\* event is listed with its id, its name and the JSON text of its input,
\* whatever block starts and deltas the same stream holds.
C35_BothEncodings ==
  EventsReturned =>
    \A i \in 1..Len(fed) :
      WholeCall(fed, i) =>
        /\ Len(ListedAs(fed[i].id)) = 1
        /\ ListedAs(fed[i].id)[1].function.name = fed[i].name
        /\ ListedAs(fed[i].id)[1].function.arguments = fed[i].json


\* the operators the filterTable contract lists
ContractOperators == OrderingOperators \cup EqualityOperators \cup TextOperators

\* C36: after a filterTable call, every filter spec of the returned state has
\* an operator of the contract, or is a merged range; and a filterTable call
\* whose operator is none of them fails and returns the state it was given.
C36_OperatorsOfContract ==
  (Called /\ last.call.name = "filterTable" /\ last.call.arguments.json) =>
    /\ \A i \in 1..Len(last.outState.columnFilters) :
         last.outState.columnFilters[i].value.operator
           \in ContractOperators \cup {Str(S_range)}
    /\ Get(last.call.arguments.val, "operator") \notin ContractOperators =>
         /\ ~last.result.success
         /\ last.outState = last.inState


\* the requests whose response body is being decoded and that nothing has
\* aborted
Decoding ==
  {r \in DOMAIN requests : requests[r].pc \in {"import", "read"}
                           /\ ~requests[r].aborted}

\* C37: at most one request that was not aborted is decoding its stream.
C37_OneDecodeInFlight == Cardinality(Decoding) <= 1


\* the request r has left parseStreamResponse
LeftParser(r) == requests[r].pc = "done" /\ requests[r].reader # "none"

\* C38: once parseStreamResponse is over for a request, at the end of the
\* body, on an abort or on a read that rejects, the reader of its response
\* body is released.
C38_ReaderReleased ==
  \A r \in DOMAIN requests :
    requests[r].pc = "done" => requests[r].reader # "locked"

\* three requests have left parseStreamResponse, one at the end of the
\* body, one aborted before its first read and one on a read that failed,
\* and their readers are released
C38_Witness ==
  /\ \A r \in DOMAIN requests : LeftParser(r) /\ requests[r].reader = "released"
  /\ \E r \in DOMAIN requests :
       ~requests[r].aborted /\ requests[r].trouble = "none"
  /\ \E r \in DOMAIN requests :
       requests[r].aborted /\ requests[r].abortedAt = "import"
  /\ \E r \in DOMAIN requests : requests[r].trouble = "transport"


\* how many times options.onError was called for the request r
RECURSIVE ErrorsOf(_, _)
ErrorsOf(r, n) ==
  IF n = 0 THEN 0
  ELSE (IF errors[n].request = r THEN 1 ELSE 0) + ErrorsOf(r, n - 1)

\* the request r is over and was never aborted
EndedUncancelled(r) == requests[r].pc = "done" /\ ~requests[r].aborted

\* C39: a request that was not cancelled ends with one terminal callback,
\* called once: onComplete when its body was decoded to the end, onError
\* otherwise.
C39_OneTerminalCallback ==
  \A r \in DOMAIN requests :
    EndedUncancelled(r) =>
      /\ requests[r].completions + ErrorsOf(r, Len(errors)) = 1
      /\ requests[r].completions = 1 <=> requests[r].trouble = "none"


\* C40: in the chat hook, isExecutingTool is false whenever isStreaming is
\* false.
C40_NotExecutingWhenIdle == ~isStreaming => ~isExecutingTool

====
